---- MODULE Spec2Model ----
(***************************************************************************)
(* Model of the source lifecycle controller of UiVideoComponent            *)
(* (src/src/es6/Video/UiVideoComponent.js): init, selectSource, setSource, *)
(* unsetSource, setPoster, the video element signal handlers and the       *)
(* source error handler, together with the listeners that the component    *)
(* dispatches its events to, the selectSource hooks of the plugins, the    *)
(* Responsive plugin and the mute/unmute arithmetic of the Sound plugin.   *)
(*                                                                         *)
(* Every public call is one action.  The body of a call is an operator on  *)
(* a record `c` holding the component and its video element; the events a  *)
(* call dispatches are appended to c.log with a snapshot of what a         *)
(* listener can observe at that moment.  A listener may veto the           *)
(* cancelable event, change the source object that the event carries, or   *)
(* call back into the component (re-entrancy).                             *)
(***************************************************************************)
EXTENDS Integers, Sequences, FiniteSets, TLC

VARIABLES
    current_index,    \* #current_index: Null or Some(i)
    current_source,   \* #current_source: Null or Some(source element)
    children,         \* source elements attached to the video element, in order
    states,           \* names of the states that are set
    poster,           \* poster attribute of the video element: Null or Some(url)
    config,           \* the component's config
    video,            \* playback and sound properties of the video element
    responsive,       \* private fields of the Responsive plugin
    media,            \* the media queries that currently match
    sound,            \* private fields of the Sound plugin
    fullscreen,       \* the Fullscreen plugin: its config, the pending requests, the document
    progress,         \* the Progress plugin: its config, the range input, the last seek
    controls,         \* the controls' hide timer and the clock it runs on
    last              \* the last operation: what was called, what it dispatched

vars == << current_index, current_source, children, states, poster, config, video,
           responsive, media, sound, fullscreen, progress, controls, last >>

----------------------------------------------------------------------------
(* Values *)

Null == << >>
Some(x) == << x >>

\* Tokens for JavaScript values that are not strings.
Undefined == "#undefined"
NotAString == "#number"
\* A property that an object does not have.
Absent == "#absent"

\* The responsive property of a source that has none: no breakpoints
NoBreakpoints == << >>

\* Re-entrancy bound: a listener calls back into the component only while
\* fewer than MaxDepth calls are nested below it.
MaxDepth == 1

\* config 'defaulttype'
defaulttype == "video/mp4"

\* Who else holds the object: an entry of config 'sources', the caller of
\* setSource, or nobody (an object literal, a clone).
ConfigRef(i) == [at |-> "config", i |-> i]
CallerRef == [at |-> "caller", i |-> 0]
LocalRef == [at |-> "local", i |-> 0]

\* A list of sources as config 'sources' holds it.  The last entry has an
\* empty src.
SourceList ==
    << [pojo |-> TRUE, src |-> "A", type |-> Undefined, poster |-> "P",
        responsive |-> NoBreakpoints, ref |-> ConfigRef(0)],
       [pojo |-> TRUE, src |-> "B", type |-> Undefined, poster |-> Undefined,
        responsive |-> NoBreakpoints, ref |-> ConfigRef(1)],
       [pojo |-> TRUE, src |-> "", type |-> Undefined, poster |-> Undefined,
        responsive |-> NoBreakpoints, ref |-> ConfigRef(2)] >>

\* The defaults of the component and of its plugins
DefaultConfig ==
    [ sources |-> SourceList, selected |-> [t |-> "null", n |-> 0], native |-> FALSE,
      autoplay |-> "null", plugins |-> {}, rememberState |-> TRUE, mediaHandler |-> FALSE,
      sound |-> [mutedmax |-> 0, volumemin |-> 0, firstunmute |-> 65] ]

\* config 'sources'
Sources == config.sources

\* JavaScript indexes are 0-based: sources[ i ] is Sources[i + 1].
SourcesLength == Len(Sources)
SourceAt(i) == Sources[i + 1]
IsIndex(i) == i \in 0 .. (SourcesLength - 1)

\* Mutant: setting a state clears nothing else.
Unsets_Nothing(name) == {}

\* The states definition: the unsets list of every state.
Unsets(name) ==
    CASE name = "loading" -> {"paused", "playing", "playable", "error"}
      [] name = "playable" -> {"loading"}
      [] name = "playing" -> {"paused"}
      [] name = "paused" -> {"playing"}
      [] name = "ended" -> {"playing"}
      [] name = "error" -> {"paused", "playing", "playable", "loading"}
      [] name = "controlsDefault" -> {"controlsNative"}
      [] name = "controlsNative" -> {"controlsDefault"}
      [] OTHER -> {}

Lifecycle == {"sourceNone", "loading", "playable", "playing", "paused", "ended", "error"}

\* The states the component registers
Registered == Lifecycle \cup {"initialized", "controlsDefault", "controlsNative", "controlsShow"}

\* states.set( name ), step by step: the state is marked, then the states of
\* its unsets list are cleared.
StatesMarked(S, name) == S \cup {name}
StatesCleared(S, name) == S \ Unsets(name)

\* Mutant: the unsets lists of the cleared states are applied too.
StatesSet_Cascading(S, name) ==
    (S \ (Unsets(name) \cup UNION {Unsets(u) : u \in Unsets(name) \cap S})) \cup {name}

\* states.set( name ) and states.unset( name )
StatesSet(S, name) == (S \ Unsets(name)) \cup {name}
StatesUnset(S, name) == S \ {name}

----------------------------------------------------------------------------
(* Listeners *)

EvUpdate == "video.source.update"
EvBefore == "video.source.before"
EvSet == "video.source.set"
EvUnset == "video.source.unset"
EvError == "video.source.error"
EvPosterSet == "video.poster.set"
EvPosterUnset == "video.poster.unset"
Events == {EvUpdate, EvBefore, EvSet, EvUnset, EvError, EvPosterSet, EvPosterUnset}
EvNone == "video.source.none"

\* The argument of selectSource: null, a number, or something else.
NullIndex == [t |-> "null", n |-> 0]
Num(n) == [t |-> "number", n |-> n]
NotANumber == [t |-> "string", n |-> 0]

\* A loaded plugin, by what its selectSource method does to the shared
\* { index, source } record: the plugin has no such method, or writes
\* data.index, or writes data.source, or moves data.index to the next entry,
\* or sets data.source to the list entry at data.index.
Plugin(fn, i, s) == [fn |-> fn, index |-> i, source |-> s]
Hookless == Plugin("none", NullIndex, Null)
WritesIndex(i) == Plugin("setIndex", i, Null)
WritesSource(s) == Plugin("setSource", NullIndex, s)
NextIndex == Plugin("next", NullIndex, Null)
LooksUp == Plugin("lookup", NullIndex, Null)

\* The loaded plugins, in load order: none, or one that writes data.index, or
\* one that writes data.source.
NoHook == << >>
IndexHook(i) == << WritesIndex(i) >>
SourceHook(s) == << WritesSource(s) >>

\* An object literal { src }
PlainSource(s) ==
    [pojo |-> TRUE, src |-> s, type |-> Undefined, poster |-> Undefined,
     responsive |-> NoBreakpoints, ref |-> LocalRef]

\* A call of the public interface.
SetSourceCall(s) ==
    [op |-> "setSource", source |-> s, index |-> NullIndex, rmposter |-> TRUE, hook |-> NoHook,
     isarray |-> TRUE]
SelectSourceCall(i, h, a) ==
    [op |-> "selectSource", source |-> PlainSource(""), index |-> i, rmposter |-> TRUE, hook |-> h,
     isarray |-> a]
UnsetSourceCall(p) ==
    [op |-> "unsetSource", source |-> PlainSource(""), index |-> NullIndex, rmposter |-> p, hook |-> NoHook,
     isarray |-> TRUE]
SignalCall(name) ==
    [op |-> name, source |-> PlainSource(""), index |-> NullIndex, rmposter |-> TRUE, hook |-> NoHook,
     isarray |-> TRUE]
NoCall == SignalCall("none")

\* Calls a listener makes back into the component.
NestedCalls ==
    { SetSourceCall(PlainSource("B")), SelectSourceCall(Num(0), NoHook, TRUE),
      UnsetSourceCall(TRUE) }

\* The properties a listener of source.update assigns to event.detail.source
NoRewrite == [src |-> Absent, type |-> Absent, poster |-> Absent]

\* The registered listeners: `veto` is a source.update listener that calls
\* preventDefault; `rewrite` is what a source.update listener assigns to the
\* source of the event; `at`/`call` is a listener of event `at` that makes
\* `call`.
NoListeners == [veto |-> FALSE, at |-> "none", call |-> NoCall, rewrite |-> NoRewrite]
VetoListener == [veto |-> TRUE, at |-> "none", call |-> NoCall, rewrite |-> NoRewrite]
SimpleListeners == {NoListeners, VetoListener}

----------------------------------------------------------------------------
(* The component as a record, and what a listener observes *)

Component ==
    [ index |-> current_index, source |-> current_source, children |-> children,
      states |-> states, poster |-> poster, nid |-> Len(children) + 2,
      log |-> << >>, threw |-> FALSE, posters |-> << >>,
      sources |-> config.sources, caller |-> PlainSource(Undefined),
      video |-> video, responsive |-> responsive, media |-> media ]

\* getCurrentSource(): the src attribute of #current_source, or null
\* (src.src = source.src stores the string as the attribute, unchanged)
getCurrentSource(c) == IF c.source # Null THEN Some(c.source[1].src) ELSE Null

\* getCurrentIndex()
getCurrentIndex(c) == c.index

Entry(c, ev, d) ==
    [ ev |-> ev, d |-> d, states |-> c.states \cap Lifecycle,
      cur |-> getCurrentSource(c), index |-> c.index, nchild |-> Len(c.children) ]

Logged(c, ev, d) == [c EXCEPT !.log = Append(@, Entry(c, ev, d))]

\* throw new UiVideoComponentException( ... )
Throw(c, d) == [Logged(c, "throw", d) EXCEPT !.threw = TRUE]


\* A listener that calls into the component inside try/catch: what the call
\* did stays, the exception does not leave the listener.
Caught(c) == [c EXCEPT !.threw = FALSE]

----------------------------------------------------------------------------
(* Objects *)

\* Object.assign( object, fields ): the properties that `fields` has replace
\* those of the object
MergeFields(obj, fields) ==
    [obj EXCEPT !.src = IF fields.src = Absent THEN @ ELSE fields.src,
                !.type = IF fields.type = Absent THEN @ ELSE fields.type,
                !.poster = IF fields.poster = Absent THEN @ ELSE fields.poster]

\* An assignment to an object changes it for everyone who holds it: for the
\* config when it is an entry of config 'sources', for the caller when it is
\* the object the caller passed.
Assign(c, obj, fields) ==
    LET o == MergeFields(obj, fields)
        c1 == CASE obj.ref.at = "config" -> [c EXCEPT !.sources[obj.ref.i + 1] = o]
                [] obj.ref.at = "caller" -> [c EXCEPT !.caller = o]
                [] OTHER -> c
    IN  [c |-> c1, detail |-> Some(o)]

\* cloneObject( source, true ): a new object with the same properties, held
\* by nobody else
cloneObject(s) == [s EXCEPT !.ref = LocalRef]

\* Mutant: setSource goes on with the object it was given.
CloneArgument_SameObject(s) == s

\* source = cloneObject( source, true );
CloneArgument(s) == cloneObject(s)

----------------------------------------------------------------------------
(* The Responsive plugin *)

\* A breakpoint of a source's responsive property: a media query and the
\* properties to override when it matches
Breakpoint(q, f) == [query |-> q, fields |-> f]
Override(src, p) == [src |-> src, type |-> Absent, poster |-> p]

\* Mutant: the breakpoints are visited last declared first.
Entries_Reversed(map) == [i \in 1 .. Len(map) |-> map[Len(map) + 1 - i]]

\* Object.entries( source[ config.propertyName ] ): in declaration order
Entries(map) == map

\* config.media.matches( query )
Matches(c, q) == q \in c.media

RECURSIVE AssignMatching(_, _, _)
\* for ( let i = 0; i < entries.length; i++ ) { if matches: Object.assign }
AssignMatching(c, obj, entries) ==
    IF entries = << >> THEN [c |-> c, detail |-> Some(obj)]
    ELSE LET e == Head(entries)
             r == IF Matches(c, e.query) THEN Assign(c, obj, e.fields)
                  ELSE [c |-> c, detail |-> Some(obj)]
         IN  AssignMatching(r.c, r.detail[1], Tail(entries))

\* #responsive_update_source( source )
responsive_update_source(c, detail) ==
    IF detail # Null /\ detail[1].responsive # NoBreakpoints
    THEN AssignMatching(c, detail[1], Entries(detail[1].responsive))
    ELSE [c |-> c, detail |-> detail]

\* Mutant: the playback state is not recorded.
RememberState_Nothing(c) == c

\* #previous_currentTime = video.currentTime; #previous_paused = video.paused;
RememberState(c) ==
    [c EXCEPT !.responsive = [previous_currentTime |-> Some(c.video.currentTime),
                              previous_paused |-> Some(c.video.paused)]]

\* #event_source_update( event )
event_source_update(c, detail) ==
    responsive_update_source(IF config.rememberState THEN RememberState(c) ELSE c, detail)

\* config.media.matches( query ) is evaluated for the first entry of a
\* responsive map while responsive.media is null
MediaMissing(detail) ==
    /\ ~config.mediaHandler
    /\ detail # Null
    /\ detail[1].responsive # NoBreakpoints

\* #event_source_update( event ) while responsive.media is null: the state
\* is remembered and the listener fails with a TypeError
event_source_update_failing(c, detail, d) ==
    [c |-> Throw(IF config.rememberState THEN RememberState(c) ELSE c, d), detail |-> detail]

\* video.play()
VideoPlay(c, d) == [Logged(c, "play", d) EXCEPT !.video.paused = FALSE]

\* #event_source_set( event )
event_source_set(c, d) ==
    IF config.rememberState
    THEN LET t == c.responsive.previous_currentTime
             c1 == IF t # Null THEN [c EXCEPT !.video.currentTime = t[1]] ELSE c
         IN  IF c.responsive.previous_paused = Some(FALSE) THEN VideoPlay(c1, d) ELSE c1
    ELSE c

\* The listeners the loaded plugins registered (registerEvents); they were
\* registered when the plugins were loaded, before any other listener.
PluginListeners(c, ev, detail, d) ==
    IF "responsive" \in config.plugins /\ ev = EvUpdate
    THEN IF MediaMissing(detail) THEN event_source_update_failing(c, detail, d)
         ELSE event_source_update(c, detail)
    ELSE IF "responsive" \in config.plugins /\ ev = EvSet
    THEN [c |-> event_source_set(c, d), detail |-> detail]
    ELSE [c |-> c, detail |-> detail]

----------------------------------------------------------------------------
(* Steps of the operations *)

\* isPojo( source )
IsPojo(s) == s.pojo

\* Mutant: the result of the dispatch is read the wrong way round.
UpdatePrevented_Inverted(u) == u.ok

\* if ( !this.dispatchEvent( 'video.source.update', ..., true, true ) ) return;
UpdatePrevented(u) == ~u.ok

\* typeof source.src !== 'string' || !source.src.length
SrcMissing(s) == s.src \in {Undefined, NotAString} \/ s.src = ""

\* Mutant: the comparison with the current address never matches.
NoChange_Never(c, s) == FALSE

\* Mutant: a source that failed to load is set again.
NoChange_UnlessError(c, s) == Some(s.src) = getCurrentSource(c) /\ "error" \notin c.states

\* Mutant: the type given must be that of the current source element too.
NoChange_SrcAndType(c, s) ==
    /\ c.source # Null
    /\ s.src = c.source[1].src
    /\ s.type = c.source[1].type

\* source.src === this.getCurrentSource()
NoChange(c, s) == Some(s.src) = getCurrentSource(c)

\* Mutant: the old source is removed without entering the loading state.
EnterLoading_NoState(c) == [c EXCEPT !.children = << >>, !.video.paused = TRUE]

\* states.set( 'loading' ); video.innerHTML = ''; video.pause();
EnterLoading(c) ==
    [c EXCEPT !.states = StatesSet(@, "loading"), !.children = << >>,
              !.video.paused = TRUE]

\* document.createElement( 'source' ) with type and src
CreateSource(c, s) ==
    [ id |-> c.nid, src |-> s.src,
      type |-> IF s.type = Undefined THEN defaulttype ELSE s.type ]

\* the element is a new object
Created(c) == [c EXCEPT !.nid = @ + 1]

\* Mutant: sourceNone is not unset when the new source is attached.
AttachAndLoad_KeepsSourceNone(c, el, d) ==
    Logged([c EXCEPT !.source = Some(el), !.children = Append(@, el),
                     !.video.currentTime = 0], "load", d)

\* #current_source = src; video.appendChild( src ); video.load();
\* states.unset( 'sourceNone' );
\* (load() starts over: the playback position is 0 again)
AttachAndLoad(c, el, d) ==
    LET c1 == [c EXCEPT !.source = Some(el), !.children = Append(@, el),
                        !.video.currentTime = 0]
        c2 == Logged(c1, "load", d)
    IN  [c2 EXCEPT !.states = StatesUnset(@, "sourceNone")]

\* Mutant: the index is not removed with the source reference.
ClearSelection_KeepsIndex(c) ==
    [c EXCEPT !.source = Null, !.states = StatesSet(@, "sourceNone")]

\* Mutant: the selection is removed without setting sourceNone.
ClearSelection_NoSourceNone(c) == [c EXCEPT !.index = Null, !.source = Null]

\* #current_index = null; #current_source = null; states.set( 'sourceNone' );
ClearSelection(c) ==
    [c EXCEPT !.index = Null, !.source = Null, !.states = StatesSet(@, "sourceNone")]

\* Mutant: the index is committed only while no source is active.
CommitIndex_IfNoSource(c, n) == IF c.source = Null THEN [c EXCEPT !.index = Some(n)] ELSE c

\* #current_index = data.index
CommitIndex(c, n) == [c EXCEPT !.index = Some(n)]

\* The poster attribute after video[ poster ? 'setAttribute' :
\* 'removeAttribute' ]( 'poster', poster ): null and '' are falsy
PosterValue(p) == IF p \in {Undefined, ""} THEN Null ELSE Some(p)

\* poster = poster && !poster.length ? null : poster;
\* The condition is poster && !poster.length: for '' it is '' (falsy), for a
\* longer string it is false, so poster is what it was: null (the default),
\* '' or the string.  It is the detail of the poster event.
PosterDetail(p) == IF p = Undefined THEN Null ELSE Some(p)

\* The details of the poster events dispatched during the call
NotePoster(c, detail) == [c EXCEPT !.posters = Append(@, detail)]

\* video.setAttribute( 'poster', poster ) or video.removeAttribute( 'poster' )
ApplyPoster(c, v) == [c EXCEPT !.poster = v]

\* What the selectSource method of one plugin does to the record
ApplyHook(p, data) ==
    CASE p.fn = "setIndex" -> [data EXCEPT !.index = p.index]
      [] p.fn = "setSource" -> [data EXCEPT !.source = p.source]
      [] p.fn = "next" ->
            [data EXCEPT !.index = IF @.t = "number" THEN Num(@.n + 1) ELSE @]
      [] p.fn = "lookup" ->
            [data EXCEPT !.source = IF data.index.t = "number" /\ IsIndex(data.index.n)
                                    THEN Some(SourceAt(data.index.n)) ELSE Null]
      [] OTHER -> data

\* Mutant: the plugins are run last loaded first.
PluginOrder_Reversed(plugins) == [i \in 1 .. Len(plugins) |-> plugins[Len(plugins) + 1 - i]]

\* The loaded plugins in the order plugins.run visits them
PluginOrder(plugins) == plugins

RECURSIVE run(_, _)
\* plugins.run( name, [ data ] ): every loaded plugin that has the method is
\* called with the same record, one after the other
run(plugins, data) ==
    IF plugins = << >> THEN data
    ELSE run(Tail(plugins), ApplyHook(Head(plugins), data))

\* Mutant: the record is changed although no plugin ran.
InitialData_NoSource(index, source) == [index |-> Num(index), source |-> Null]

\* const data = { index, source };
InitialData(index, source) == [index |-> Num(index), source |-> Some(source)]

\* Mutant: the record is used as it was made, without running the hook.
HookData_Unhooked(i, h) == InitialData(i, SourceAt(i))

\* The { index, source } record after plugins.run( 'selectSource', [ data ] )
HookData(i, h) == run(PluginOrder(h), InitialData(i, SourceAt(i)))

\* Mutant: the rewritten index is not looked up in the source list again.
RelationBroken_NoLookup(data) ==
    \/ data.source = Null
    \/ data.index.t # "number"

\* !data.source || typeof data.index !== 'number' || !sources[ data.index ]
RelationBroken(data) ==
    \/ data.source = Null
    \/ data.index.t # "number"
    \/ ~IsIndex(data.index.n)

----------------------------------------------------------------------------
(* The operations.  d is the nesting depth of the call, L the listeners. *)

RECURSIVE dispatchEvent(_, _, _, _, _, _)
RECURSIVE setPoster(_, _, _, _)
RECURSIVE setSource(_, _, _, _)
RECURSIVE unsetSource(_, _, _, _)
RECURSIVE selectSource(_, _, _, _, _, _)
RECURSIVE Call(_, _, _, _)

\* A source.update listener that assigns to the source of the event
Rewritten(p, ev, L) ==
    IF ~p.c.threw /\ ev = EvUpdate /\ L.rewrite # NoRewrite /\ p.detail # Null
    THEN Assign(p.c, p.detail[1], L.rewrite)
    ELSE p

\* A listener that calls back into the component, and the result of the
\* dispatch: false when a listener of a cancelable event prevented the
\* default
Heard(r, ev, cancelable, d, L) ==
    [ c |-> IF ~r.c.threw /\ L.at = ev /\ d < MaxDepth
            THEN Caught(Call(r.c, L.call, d + 1, L))
            ELSE r.c,
      ok |-> ~(cancelable /\ L.veto),
      detail |-> r.detail ]

\* dispatchEvent( name, detail, bubbles, cancelable ): the listeners of the
\* event run, those of the plugins first.  `detail` is the source object the
\* event carries, or Null.
dispatchEvent(c, ev, detail, cancelable, d, L) ==
    Heard(Rewritten(PluginListeners(Logged(c, ev, d), ev, detail, d), ev, L),
          ev, cancelable, d, L)

\* video[ poster ? 'setAttribute' : 'removeAttribute' ]( 'poster', poster );
\* dispatchEvent( 'video.poster.' + ( poster ? 'set' : 'unset' ), { poster } );
PosterApplied(c, p, d, L) ==
    dispatchEvent(NotePoster(ApplyPoster(c, PosterValue(p)), PosterDetail(p)),
                  IF PosterValue(p) # Null THEN EvPosterSet ELSE EvPosterUnset,
                  Null, FALSE, d, L).c

setPoster(c, p, d, L) ==
    IF p = NotAString THEN Throw(c, d)
    ELSE PosterApplied(c, p, d, L)

\* setSource from source.before on: b is the component after the listeners
\* of source.before ran, el the source element created before
SourceAttached(b, el, source, d, L) ==
    dispatchEvent(AttachAndLoad(b, el, d), EvSet, Some(source), FALSE, d, L).c

\* setSource after setPoster: p is the component after setPoster
PosterDone(p, source, d, L) ==
    IF p.threw THEN p
    ELSE SourceAttached(dispatchEvent(Created(p), EvBefore, Some(source), FALSE, d, L).c,
                        CreateSource(p, source), source, d, L)

\* setSource after source.update: u is the result of the dispatch, source
\* the object of the event as the listeners left it
UpdateDone(u, source, d, L) ==
    IF u.c.threw THEN u.c
    ELSE IF UpdatePrevented(u) THEN u.c
    ELSE IF SrcMissing(source) THEN Throw(u.c, d)
    ELSE IF NoChange(u.c, source) THEN u.c
    ELSE PosterDone(setPoster(EnterLoading(u.c), source.poster, d, L), source, d, L)

\* The source object that the event carries after the dispatch
DetailOf(u) == u.detail[1]

SourceUpdate(u, d, L) == UpdateDone(u, DetailOf(u), d, L)

\* Mutant: src is required before source.update is dispatched.
setSource_SrcFirst(c, s, d, L) ==
    IF ~IsPojo(s) \/ SrcMissing(s) THEN Throw(c, d)
    ELSE SourceUpdate(dispatchEvent(c, EvUpdate, Some(CloneArgument(s)), TRUE, d, L), d, L)

\* setSource( source, setter )
setSource(c, s, d, L) ==
    IF ~IsPojo(s) THEN Throw(c, d)
    ELSE SourceUpdate(dispatchEvent(c, EvUpdate, Some(CloneArgument(s)), TRUE, d, L), d, L)

\* if ( poster ) this.setPoster();
PosterRemoved(c, rmposter, d, L) ==
    IF rmposter THEN setPoster(c, Undefined, d, L) ELSE c

\* unsetSource after source.update
UnsetUpdateDone(u, rmposter, d, L) ==
    IF UpdatePrevented(u) THEN u.c
    ELSE dispatchEvent(ClearSelection(PosterRemoved(EnterLoading(u.c), rmposter, d, L)),
                       EvUnset, Null, FALSE, d, L).c

unsetSource(c, rmposter, d, L) ==
    UnsetUpdateDone(dispatchEvent(c, EvUpdate, Null, TRUE, d, L), rmposter, d, L)

\* selectSource after the plugins' hooks ran
HooksDone(c, data, d, L) ==
    IF RelationBroken(data) THEN Throw(c, d)
    ELSE setSource(CommitIndex(c, data.index.n), data.source[1], d, L)

selectSource(c, index, hook, isarray, d, L) ==
    IF index.t = "null" THEN unsetSource(c, TRUE, d, L)
    ELSE IF index.t # "number" THEN Throw(c, d)
    ELSE IF ~isarray THEN Throw(c, d)
    ELSE IF ~IsIndex(index.n) THEN Throw(c, d)
    ELSE HooksDone(c, HookData(index.n, hook), d, L)

Call(c, k, d, L) ==
    CASE k.op = "setSource" -> setSource(c, k.source, d, L)
      [] k.op = "unsetSource" -> unsetSource(c, k.rmposter, d, L)
      [] k.op = "selectSource" -> selectSource(c, k.index, k.hook, k.isarray, d, L)
      [] OTHER -> c

\* Mutant: the error state is marked and its unsets list is not applied.
SetError_OnlyMarks(c) == [c EXCEPT !.states = @ \cup {"error"}]

\* this.states.set( 'error' )
SetError(c) == [c EXCEPT !.states = StatesSet(@, "error")]

\* Mutant: source.error is dispatched before the error state is set.
event_source_error_EventFirst(c, d, L) ==
    Throw(SetError(dispatchEvent(c, EvError, Null, FALSE, d, L).c), d)

\* #event_source_error( event )
event_source_error(c, d, L) ==
    Throw(dispatchEvent(SetError(c), EvError, Null, FALSE, d, L).c, d)

\* this.states.set( 'controlsNative' ) or this.states.set( 'controlsDefault' )
SetControlsMode(c) ==
    [c EXCEPT !.states = StatesSet(@, IF config.native THEN "controlsNative"
                                      ELSE "controlsDefault")]

\* video.autoplay is set from a boolean config 'autoplay'; the video is
\* muted when it autoplays
SetAutoplay(c) ==
    LET a == IF config.autoplay = "null" THEN c.video.autoplay
             ELSE config.autoplay = "true"
    IN  [c EXCEPT !.video.autoplay = a, !.video.muted = IF a THEN TRUE ELSE @]

\* Mutant: a single source is selected whatever config 'selected' says.
SelectsInitially_SingleFirst ==
    IF Len(Sources) = 1 THEN Num(0)
    ELSE IF config.selected.t = "number" THEN config.selected
    ELSE NullIndex

\* The index that init() selects: config 'selected' when it is a number, 0
\* when there is exactly one source, and otherwise none (NullIndex)
SelectsInitially ==
    IF config.selected.t = "number" THEN config.selected
    ELSE IF Len(Sources) = 1 THEN Num(0)
    ELSE NullIndex

\* this.states.set( 'sourceNone' )
SetSourceNone(c) == [c EXCEPT !.states = StatesSet(@, "sourceNone")]

\* this.selectSource( ... ) or this.dispatchEvent( 'video.source.none' )
SelectOrNone(c, i, d, L) ==
    IF i.t = "number" THEN selectSource(c, i, NoHook, TRUE, d, L)
    ELSE dispatchEvent(c, EvNone, Null, FALSE, d, L).c

\* super.init() sets the initialized state when the callback has returned
InitComplete(c) ==
    IF c.threw THEN c ELSE [c EXCEPT !.states = StatesSet(@, "initialized")]

\* init(): the callback that it passes to super.init()
init(c, d, L) ==
    InitComplete(SelectOrNone(SetSourceNone(SetAutoplay(SetControlsMode(c))),
                              SelectsInitially, d, L))

----------------------------------------------------------------------------
(* The Sound plugin.  Volumes are numbers from 0 to 100; video.volume is   *)
(* held in hundredths.                                                     *)

\* this.#last_volume <= config 'sound.mutedmax'
BelowMutedMax(v) == v <= config.sound.mutedmax

\* Setting video.volume or video.muted to another value queues a
\* volumechange event
VideoSound(v, volume, muted) ==
    [v EXCEPT !.volume = volume, !.muted = muted,
              !.changed = @ \/ volume # v.volume \/ muted # v.muted]

\* #sound_mute( saveLast )
sound_mute(v, s, saveLast) ==
    [ video |-> VideoSound(v, 0, TRUE),
      sound |-> [s EXCEPT !.last_volume = IF saveLast THEN v.volume ELSE @] ]

\* Mutant: the first unmute volume is applied but the flag is left set.
sound_unmute_KeepsFlag(v, s) ==
    LET l1 == IF BelowMutedMax(s.last_volume) THEN config.sound.volumemin ELSE s.last_volume
        first == s.first_unmute /\ BelowMutedMax(l1)
        l2 == IF first THEN config.sound.firstunmute ELSE l1
    IN  [ video |-> VideoSound(v, l2, FALSE),
          sound |-> [ last_volume |-> l2, first_unmute |-> s.first_unmute ] ]

\* #sound_unmute()
sound_unmute(v, s) ==
    LET l1 == IF BelowMutedMax(s.last_volume) THEN config.sound.volumemin ELSE s.last_volume
        first == s.first_unmute /\ BelowMutedMax(l1)
        l2 == IF first THEN config.sound.firstunmute ELSE l1
    IN  [ video |-> VideoSound(v, l2, FALSE),
          sound |-> [ last_volume |-> l2,
                      first_unmute |-> IF first THEN FALSE ELSE s.first_unmute ] ]

\* Mutant: the handler sets the muted state but leaves video.muted alone.
volumechange_FlagUntouched(v, S) ==
    [video |-> [v EXCEPT !.changed = FALSE],
     states |-> IF BelowMutedMax(v.volume) THEN StatesSet(S, "muted")
                ELSE StatesUnset(S, "muted")]

\* The volumechange handler of #bind_volume_change
volumechange(v, S) ==
    LET u == [v EXCEPT !.changed = FALSE]
    IN  IF BelowMutedMax(v.volume)
        THEN [video |-> VideoSound(u, v.volume, TRUE), states |-> StatesSet(S, "muted")]
        ELSE [video |-> VideoSound(u, v.volume, FALSE), states |-> StatesUnset(S, "muted")]

----------------------------------------------------------------------------
(* The state machine *)

\* Source elements are objects: only their identity matters, so after each
\* operation they are numbered by their position in the video element.
Position(el, ch) ==
    IF \E i \in 1 .. Len(ch) : ch[i].id = el.id
    THEN CHOOSE i \in 1 .. Len(ch) : ch[i].id = el.id
    ELSE Len(ch) + 1

Renumbered(c) ==
    [c EXCEPT
        !.children = [i \in 1 .. Len(c.children) |-> [c.children[i] EXCEPT !.id = i]],
        !.source = IF c.source = Null THEN Null
                   ELSE Some([c.source[1] EXCEPT !.id = Position(c.source[1], c.children)])]

\* What the component and its video element looked like before the call.
Before ==
    [ index |-> current_index, source |-> current_source, children |-> children,
      states |-> states \cap Lifecycle, poster |-> poster,
      currentTime |-> video.currentTime, paused |-> video.paused ]

\* The video element before a source was ever loaded
NewVideo ==
    [ currentTime |-> 0, paused |-> TRUE, autoplay |-> FALSE, muted |-> FALSE,
      volume |-> 100, changed |-> FALSE ]

NothingRemembered == [previous_currentTime |-> Null, previous_paused |-> Null]
NewSound == [last_volume |-> 0, first_unmute |-> FALSE]

\* The operation is evaluated once; its result becomes the next state.
Becomes(r, k, L) ==
    \E n \in {Renumbered(r)} :
        /\ current_index' = n.index
        /\ current_source' = n.source
        /\ children' = n.children
        /\ states' = n.states
        /\ poster' = n.poster
        /\ config' = [config EXCEPT !.sources = n.sources]
        /\ video' = n.video
        /\ responsive' = n.responsive
        /\ last' = [call |-> k, L |-> L, pre |-> Before, log |-> n.log, threw |-> n.threw,
                    given |-> n.caller, posters |-> n.posters]
        /\ media' = n.media
        /\ UNCHANGED << sound, fullscreen, progress, controls >>

\* Arguments of the calls
GoodSources ==
    { [PlainSource(s) EXCEPT !.poster = p] : s \in {"A", "B"}, p \in {Undefined, "P"} }
SourceArgs ==
    GoodSources \cup
    { [PlainSource(Undefined) EXCEPT !.pojo = FALSE],
      PlainSource(""), PlainSource(Undefined),
      [PlainSource("A") EXCEPT !.poster = ""],
      [PlainSource("A") EXCEPT !.poster = NotAString] }
IndexArgs == {NullIndex, NotANumber} \cup { Num(n) : n \in 0 .. SourcesLength }
Hooks ==
    { NoHook, IndexHook(Num(1)), IndexHook(Num(SourcesLength)), IndexHook(NotANumber),
      SourceHook(Null), SourceHook(Some(PlainSource("B"))) }

\* The Fullscreen plugin before its first request: config 'fullscreen.enabled'
\* (default true), the requests whose promise is pending, whether the document
\* shows an element fullscreen, whether disableFullscreen() has returned
\* with no enableFullscreen() or requestFullscreen() after it, and what
\* issued the request that was granted last
FullscreenStart ==
    [enabled |-> TRUE, requests |-> << >>, document |-> FALSE, disabled |-> FALSE,
     granted |-> "none"]

\* The Progress plugin before initComponent: config 'progress.interactive'
\* (default null), the readonly attribute and the readonly property of the
\* range input, and the argument of the last call of interactive()
ProgressStart ==
    [interactive |-> Null, attribute |-> FALSE, readonly |-> FALSE, called |-> Null]

\* The controls before the first mousemove: no hide timer is pending and
\* controls_timeout = null; the clock, the time of the last mousemove while
\* playable, and whether that mousemove cleared a timer that was pending
ControlsStart ==
    [timers |-> {}, timeout |-> Null, now |-> 0, moved |-> Null, cancelled |-> FALSE]

\* A component without a source: its config, the states that are set, its
\* video element, the matching media queries and the Sound plugin's fields
Start(cfg, S, v, m, snd) ==
    /\ current_index = Null
    /\ current_source = Null
    /\ children = << >>
    /\ states = S
    /\ poster = Null
    /\ config = cfg
    /\ video = v
    /\ responsive = NothingRemembered
    /\ media = m
    /\ sound = snd
    /\ fullscreen = FullscreenStart
    /\ progress = ProgressStart
    /\ controls = ControlsStart
    /\ last = [call |-> NoCall, L |-> NoListeners, pre |-> Before, log |-> << >>,
               threw |-> FALSE, given |-> PlainSource(Undefined), chain |-> << >>]

\* The states of a component after init() when init() selected no source
InitializedStates == {"initialized", "controlsDefault", "sourceNone"}

Init == Start(DefaultConfig, InitializedStates, NewVideo, {}, NewSound)

\* The object the caller of setSource holds
Held(s) == [s EXCEPT !.ref = CallerRef]

\* component.setSource( source )
SetSource ==
    \E s \in SourceArgs, L \in SimpleListeners :
        /\ L = NoListeners \/ s \in {PlainSource("A"), PlainSource("B"), PlainSource("")}
        /\ Becomes(setSource([Component EXCEPT !.caller = Held(s)], Held(s), 0, L),
                   SetSourceCall(s), L)

\* component.unsetSource( poster )
UnsetSource ==
    \E p \in BOOLEAN, L \in SimpleListeners :
        /\ L = NoListeners \/ p
        /\ Becomes(unsetSource(Component, p, 0, L), UnsetSourceCall(p), L)

\* component.selectSource( index ), with the plugins' selectSource hooks and
\* with config 'sources' an Array or not
SelectSource ==
    \E i \in IndexArgs, h \in Hooks, a \in BOOLEAN, L \in SimpleListeners :
        /\ a \/ (h = NoHook /\ L = NoListeners /\ i = Num(0))
        /\ h = NoHook \/ (i.t = "number" /\ IsIndex(i.n))
        /\ L = NoListeners \/ (h \in {NoHook, IndexHook(Num(1))} /\ i \in {NullIndex, Num(0), Num(1)})
        /\ Becomes(selectSource(Component, i, h, a, 0, L), SelectSourceCall(i, h, a), L)

\* The second call of a caller that sets a source twice
SetAgain(r1, s, L) ==
    IF r1.threw THEN r1 ELSE setSource(Logged(r1, "call", 0), s, 0, L)

\* The call in the catch block of a caller that retries
Retry(r1, g) ==
    IF r1.threw
    THEN selectSource(Logged(Caught(r1), "call", 0), g, NoHook, TRUE, 0, NoListeners)
    ELSE r1

\* A caller that sets the same source twice in a row:
\*   component.setSource( source ); component.setSource( source );
\* The log holds a "call" entry where the second call begins.
SetSourceTwice ==
    \E s \in GoodSources, L \in SimpleListeners :
        /\ L = NoListeners \/ s = PlainSource("A")
        /\ Becomes(SetAgain(setSource([Component EXCEPT !.caller = Held(s)], Held(s), 0, L),
                            Held(s), L),
                   [SetSourceCall(s) EXCEPT !.op = "setSourceTwice"], L)

\* A caller that retries after a failed selection:
\*   try { component.selectSource( bad ) } catch ( e ) { component.selectSource( good ) }
\* The log holds a "call" entry where the second call begins.
SelectSourceRetry ==
    \E i \in {NotANumber, Num(0), Num(SourcesLength)}, h \in {NoHook, SourceHook(Null)},
       g \in {Num(0), Num(1)} :
        /\ h = NoHook \/ i = Num(0)
        /\ Becomes(Retry(selectSource(Component, i, h, TRUE, 0, NoListeners), g),
                   [SelectSourceCall(i, h, TRUE) EXCEPT !.op = "selectSourceRetry",
                                                      !.source = SourceAt(g.n)],
                   NoListeners)

\* The handlers bound to the video element
Signal(name, S, log) ==
    /\ states' = S
    /\ last' = [call |-> SignalCall(name), L |-> NoListeners, pre |-> Before,
                log |-> log, threw |-> FALSE, given |-> PlainSource(Undefined)]
    /\ UNCHANGED << current_index, current_source, children, poster, config, video,
                    responsive, media, sound, fullscreen, progress, controls >>

\* Mutant: can play makes the video playable whatever the state.
CanPlayApplies_Always(S) == TRUE

\* if ( this.states.is( 'loading' ) )
CanPlayApplies(S) == "loading" \in S

\* The canplay handler; the log holds the lifecycle states after each of its
\* states.set calls.
CanPlay ==
    /\ children # << >>
    /\ IF CanPlayApplies(states)
       THEN LET S1 == StatesSet(states, "playable")
                S2 == StatesSet(S1, "paused")
            IN  Signal("canplay", S2,
                       << [ev |-> "set", d |-> 0, name |-> "playable", states |-> S1 \cap Lifecycle],
                          [ev |-> "set", d |-> 0, name |-> "paused", states |-> S2 \cap Lifecycle] >>)
       ELSE Signal("canplay", states, << >>)

Play ==
    /\ children # << >>
    /\ Signal("play", StatesUnset(StatesSet(states, "playing"), "controlsShow"), << >>)

Playing ==
    /\ children # << >>
    /\ Signal("playing", StatesUnset(StatesSet(states, "playing"), "controlsShow"), << >>)

\* A pause event also arrives after video.pause() of a source change
Pause ==
    /\ children # << >> \/ "loading" \in states
    /\ Signal("pause", StatesSet(states, "paused"), << >>)

Ended ==
    /\ children # << >>
    /\ Signal("ended", StatesSet(states, "ended"), << >>)

\* The error event of an attached source element
SourceError ==
    /\ children # << >>
    /\ Becomes(event_source_error(Component, 0, NoListeners), SignalCall("error"), NoListeners)

Next ==
    \/ SetSource
    \/ UnsetSource
    \/ SelectSource
    \/ SetSourceTwice
    \/ SelectSourceRetry
    \/ CanPlay
    \/ Play
    \/ Playing
    \/ Pause
    \/ Ended
    \/ SourceError

Spec == Init /\ [][Next]_vars

----------------------------------------------------------------------------
(* The same component with listeners that call back into it *)

ReentrantListeners ==
    { [veto |-> FALSE, at |-> e, call |-> k, rewrite |-> NoRewrite] :
        e \in Events \ {EvError}, k \in NestedCalls }
    \cup {VetoListener}

SetSourceReentrant ==
    \E s \in {PlainSource("A"), PlainSource("B")}, L \in ReentrantListeners :
        Becomes(setSource(Component, s, 0, L), SetSourceCall(s), L)

UnsetSourceReentrant ==
    \E L \in ReentrantListeners :
        Becomes(unsetSource(Component, TRUE, 0, L), UnsetSourceCall(TRUE), L)

SelectSourceReentrant ==
    \E i \in {Num(0), Num(1)}, L \in ReentrantListeners :
        Becomes(selectSource(Component, i, NoHook, TRUE, 0, L),
                SelectSourceCall(i, NoHook, TRUE), L)

SourceErrorReentrant ==
    /\ children # << >>
    /\ \E k \in NestedCalls :
        LET L == [veto |-> FALSE, at |-> EvError, call |-> k, rewrite |-> NoRewrite]
        IN  Becomes(event_source_error(Component, 0, L), SignalCall("error"), L)

NextReentrant ==
    \/ SetSourceReentrant
    \/ UnsetSourceReentrant
    \/ SelectSourceReentrant
    \/ CanPlay
    \/ SourceErrorReentrant

SpecReentrant == Init /\ [][NextReentrant]_vars

----------------------------------------------------------------------------
(* The state registry alone: states.set from the registry as constructed *)

InitStates == Start(DefaultConfig, {}, NewVideo, {}, NewSound)

\* states.set( name ); the log holds the states after the state was marked
\* and after its unsets list was applied.
StatesSetCall ==
    \E name \in Registered :
        /\ states' = StatesSet(states, name)
        /\ last' = [call |-> SignalCall("states.set"), name |-> name, was |-> states,
                    log |-> << StatesMarked(states, name),
                               StatesCleared(StatesMarked(states, name), name) >>]
        /\ UNCHANGED << current_index, current_source, children, poster, config, video,
                        responsive, media, sound, fullscreen, progress, controls >>

NextStates == StatesSetCall

SpecStates == InitStates /\ [][NextStates]_vars

----------------------------------------------------------------------------
(* Initialization: the component is constructed and init() is called once *)

\* The source lists and the values of config 'selected' a component is
\* constructed with
SourceLists == { SubSeq(SourceList, 1, k) : k \in 0 .. Len(SourceList) }
SelectedArgs == {NullIndex, NotANumber, Num(0), Num(1)}

InitConfigs ==
    { [DefaultConfig EXCEPT !.sources = ss, !.selected = sel, !.native = n, !.autoplay = a] :
        ss \in SourceLists, sel \in SelectedArgs, n \in BOOLEAN, a \in {"null", "true"} }

\* A listener of source.none that selects the first source, as the
\* documentation proposes
NoneListener ==
    [veto |-> FALSE, at |-> EvNone, call |-> SelectSourceCall(Num(0), NoHook, TRUE),
     rewrite |-> NoRewrite]

InitConstructed ==
    \E cfg \in InitConfigs : Start(cfg, {}, NewVideo, {}, NewSound)

\* component.init()
ComponentInit ==
    /\ last.call = NoCall
    /\ "initialized" \notin states
    /\ \E L \in {NoListeners, VetoListener, NoneListener} :
        Becomes(init(Component, 0, L), SignalCall("init"), L)

NextInit ==
    \/ ComponentInit
    \/ CanPlay
    \/ Pause

SpecInit == InitConstructed /\ [][NextInit]_vars

----------------------------------------------------------------------------
(* selectSource with several plugins loaded *)

\* The most plugins loaded at once
MaxPlugins == 3

PluginKinds == {Hookless, NextIndex, LooksUp}

PluginLists ==
    UNION { [1 .. n -> PluginKinds] : n \in 0 .. MaxPlugins }

SelectSourcePlugins ==
    \E i \in {Num(0), Num(1)}, P \in PluginLists :
        Becomes(selectSource(Component, i, P, TRUE, 0, NoListeners),
                SelectSourceCall(i, P, TRUE), NoListeners)

NextPlugins == SelectSourcePlugins

SpecPlugins == Init /\ [][NextPlugins]_vars

----------------------------------------------------------------------------
(* The component with the Responsive plugin loaded *)

Queries == {"q1", "q2"}

\* config 'sources' with a responsive property on the first source: two
\* breakpoints, declared in this order
ResponsiveMap ==
    << Breakpoint("q1", Override("A", "P")), Breakpoint("q2", Override("B", Absent)) >>

ResponsiveSources ==
    << [pojo |-> TRUE, src |-> "S", type |-> Undefined, poster |-> Undefined,
        responsive |-> ResponsiveMap, ref |-> ConfigRef(0)],
       [pojo |-> TRUE, src |-> "D", type |-> Undefined, poster |-> Undefined,
        responsive |-> NoBreakpoints, ref |-> ConfigRef(1)] >>

ResponsiveConfig ==
    [DefaultConfig EXCEPT !.sources = ResponsiveSources, !.plugins = {"responsive"},
                          !.mediaHandler = TRUE]

\* A source.update listener that writes its own address into the source
RewriteListener ==
    [NoListeners EXCEPT !.rewrite = [src |-> "X", type |-> Absent, poster |-> Absent]]

ResponsiveListeners == {NoListeners, VetoListener, RewriteListener}

\* Playback positions of the video
Positions == {0, 7}

InitResponsive ==
    \E M \in SUBSET Queries :
        Start(ResponsiveConfig, InitializedStates, NewVideo, M, NewSound)

SelectSourceResponsive ==
    \E i \in {Num(0), Num(1)}, L \in ResponsiveListeners :
        Becomes(selectSource(Component, i, NoHook, TRUE, 0, L),
                SelectSourceCall(i, NoHook, TRUE), L)

\* setSource with an object of the caller's: a plain one, one with a
\* responsive property of its own, or one whose src is empty or missing
SetSourceResponsive ==
    \E s \in {PlainSource("D"), [PlainSource("S") EXCEPT !.responsive = ResponsiveMap],
               PlainSource(""), PlainSource(Undefined)},
       L \in ResponsiveListeners :
        Becomes(setSource([Component EXCEPT !.caller = Held(s)], Held(s), 0, L),
                SetSourceCall(s), L)

\* The caller changes the object it passed to setSource after the call.
CallerMutatesSource ==
    /\ last.call.op = "setSource"
    /\ last' = [last EXCEPT !.call.op = "mutateSource", !.pre = Before,
                            !.given = [@ EXCEPT !.src = "X"]]
    /\ UNCHANGED << current_index, current_source, children, states, poster, config, video,
                    responsive, media, sound, fullscreen, progress, controls >>

\* The argument that getCurrentIndex() is for selectSource
IndexArg(v) == IF v = Null THEN NullIndex ELSE Num(v[1])

Toggled(M, q) == IF q \in M THEN M \ {q} ELSE M \cup {q}

\* A media query starts or stops matching; the listener that initComponent
\* added for the query runs: selectSource( getCurrentIndex() )
MediaChange ==
    \E q \in Queries, L \in ResponsiveListeners :
        Becomes(selectSource([Component EXCEPT !.media = Toggled(media, q)],
                             IndexArg(getCurrentIndex(Component)), NoHook, TRUE, 0, L),
                [SignalCall("mediaChange") EXCEPT !.index = IndexArg(getCurrentIndex(Component))],
                L)

\* The video element starts to play, or is moved to another position
VideoChanges(v, S, name) ==
    /\ video' = v
    /\ states' = S
    /\ last' = [call |-> SignalCall(name), L |-> NoListeners, pre |-> Before,
                log |-> << >>, threw |-> FALSE, given |-> PlainSource(Undefined)]
    /\ UNCHANGED << current_index, current_source, children, poster, config,
                    responsive, media, sound, fullscreen, progress, controls >>

\* The video starts to play; the play handler sets the playing state
VideoPlays ==
    /\ children # << >>
    /\ video.paused
    /\ VideoChanges([video EXCEPT !.paused = FALSE],
                    StatesUnset(StatesSet(states, "playing"), "controlsShow"), "videoPlays")

\* The video is moved to another position
VideoSeeks ==
    /\ children # << >>
    /\ \E t \in Positions \ {video.currentTime} :
        VideoChanges([video EXCEPT !.currentTime = t], states, "videoSeeks")

NextResponsive ==
    \/ SelectSourceResponsive
    \/ SetSourceResponsive
    \/ CallerMutatesSource
    \/ MediaChange
    \/ VideoPlays
    \/ VideoSeeks

SpecResponsive == InitResponsive /\ [][NextResponsive]_vars

----------------------------------------------------------------------------
(* The Sound plugin: mute(), unmute(), volume() and the volumechange signal *)

SoundConfigs ==
    { DefaultConfig.sound,
      [mutedmax |-> 5, volumemin |-> 5, firstunmute |-> 65],
      [mutedmax |-> 5, volumemin |-> 10, firstunmute |-> 65] }

Volumes == {0, 3, 50}

\* After initComponent: the first unmute sets a volume only when the video
\* is muted initially
InitSound ==
    \E sc \in SoundConfigs, m \in BOOLEAN, vol \in {0, 50, 100} :
        Start([DefaultConfig EXCEPT !.sound = sc, !.plugins = {"sound"}],
              InitializedStates, [NewVideo EXCEPT !.muted = m, !.volume = vol], {},
              [last_volume |-> 0, first_unmute |-> m])

SoundBefore ==
    [ volume |-> video.volume, muted |-> video.muted,
      last_volume |-> sound.last_volume, first_unmute |-> sound.first_unmute ]

\* The most calls of the Sound plugin that are remembered one by one
MaxCalls == 3

\* The calls of mute(), unmute() and volume() so far, in order; "many" when
\* there were more than MaxCalls
Chain(name) ==
    IF name = "volumechange" THEN last.chain
    ELSE IF last.chain # << "many" >> /\ Len(last.chain) < MaxCalls THEN Append(last.chain, name)
    ELSE << "many" >>

\* The volume of the video before the first call of the Sound plugin
StartVolume == IF "start" \in DOMAIN last THEN last.start ELSE video.volume

SoundCalled(name) ==
    [ call |-> SignalCall(name), pre |-> SoundBefore, chain |-> Chain(name),
      start |-> StartVolume ]

SoundBecomes(r, name) ==
    /\ video' = r.video
    /\ sound' = r.sound
    /\ last' = SoundCalled(name)
    /\ UNCHANGED << current_index, current_source, children, states, poster, config,
                    responsive, media, fullscreen, progress, controls >>

\* plugin.mute( saveLast )
SoundMute ==
    \E saveLast \in BOOLEAN :
        SoundBecomes(sound_mute(video, sound, saveLast),
                     IF saveLast THEN "mute" ELSE "muteUnsaved")

\* plugin.unmute()
SoundUnmute == SoundBecomes(sound_unmute(video, sound), "unmute")

\* plugin.volume( volume )
SoundVolume ==
    \E n \in Volumes :
        SoundBecomes([video |-> VideoSound(video, n, video.muted), sound |-> sound], "volume")

\* The volumechange event of the video element is handled
VolumeChange ==
    /\ video.changed
    /\ \E r \in {volumechange(video, states)} :
        /\ video' = r.video
        /\ states' = r.states
        /\ last' = SoundCalled("volumechange")
        /\ UNCHANGED << current_index, current_source, children, poster, config,
                        responsive, media, sound, fullscreen, progress, controls >>

NextSound ==
    \/ SoundMute
    \/ SoundUnmute
    \/ SoundVolume
    \/ VolumeChange

SpecSound == InitSound /\ [][NextSound]_vars

----------------------------------------------------------------------------
(* findSourceIndexProp on lists of sources *)

\* What findSourceIndexProp returns: null, an index, or a source object
FoundNothing == [kind |-> "null", index |-> 0, object |-> PlainSource(Undefined)]
FoundIndex(i) == [kind |-> "index", index |-> i, object |-> PlainSource(Undefined)]
FoundObject(i, s) == [kind |-> "object", index |-> i, object |-> s]

RECURSIVE ScanBack(_, _, _, _, _)
\* Mutant: the list is scanned from its end.
ScanBack(sources, i, prop, value, ret) ==
    IF i < 0 THEN FoundNothing
    ELSE IF sources[i + 1][prop] = value
    THEN IF ret THEN FoundObject(i, sources[i + 1]) ELSE FoundIndex(i)
    ELSE ScanBack(sources, i - 1, prop, value, ret)

Scan_FromEnd(sources, i, prop, value, ret) ==
    ScanBack(sources, Len(sources) - 1, prop, value, ret)

RECURSIVE ScanOn(_, _, _, _, _)
\* for ( let i = 0; i < sources.length; i++ ) {
\*     if ( sources[ i ][ prop ] === value ) return ret ? sources[ i ] : i; }
\* return null;
ScanOn(sources, i, prop, value, ret) ==
    IF i >= Len(sources) THEN FoundNothing
    ELSE IF sources[i + 1][prop] = value
    THEN IF ret THEN FoundObject(i, sources[i + 1]) ELSE FoundIndex(i)
    ELSE ScanOn(sources, i + 1, prop, value, ret)

Scan(sources, i, prop, value, ret) == ScanOn(sources, i, prop, value, ret)

\* findSourceIndexProp( prop, value, ret ), with config 'sources' an Array
\* or not
findSourceIndexProp(sources, isarray, prop, value, ret) ==
    IF ~isarray THEN [threw |-> TRUE, result |-> FoundNothing]
    ELSE [threw |-> FALSE, result |-> Scan(sources, 0, prop, value, ret)]

\* The longest list of sources searched
MaxSources == 3

\* Sources with a src of two and a type of two, as entries of config
\* 'sources'
FindEntries ==
    { [PlainSource(s) EXCEPT !.type = ty] : s \in {"A", "X"}, ty \in {Undefined, "video/webm"} }

FindLists ==
    UNION { { [i \in 1 .. n |-> [f[i] EXCEPT !.ref = ConfigRef(i - 1)]] :
                f \in [1 .. n -> FindEntries] } : n \in 0 .. MaxSources }

FindProps == {"src", "type"}
FindValues == {"A", "X", "video/webm", Undefined}

InitFind ==
    \E ss \in FindLists :
        Start([DefaultConfig EXCEPT !.sources = ss], InitializedStates, NewVideo, {}, NewSound)

\* component.findSourceIndexProp( prop, value, ret )
FindSourceIndexProp ==
    \E prop \in FindProps, value \in FindValues, ret \in BOOLEAN, a \in BOOLEAN :
        /\ a \/ (prop = "src" /\ value = "X" /\ ~ret)
        /\ \E r \in {findSourceIndexProp(Sources, a, prop, value, ret)} :
            last' = [call |-> SignalCall("findSourceIndexProp"), prop |-> prop,
                     value |-> value, ret |-> ret, isarray |-> a,
                     threw |-> r.threw, result |-> r.result]
        /\ UNCHANGED << current_index, current_source, children, states, poster, config,
                        video, responsive, media, sound, fullscreen, progress, controls >>

NextFind == FindSourceIndexProp

SpecFind == InitFind /\ [][NextFind]_vars

----------------------------------------------------------------------------
(* setPoster called on its own *)

\* Arguments of setPoster: null, the empty string, two addresses, a number
PosterArgs == {Undefined, "", "P", "Q", NotAString}

SetPosterCall(p) == [SignalCall("setPoster") EXCEPT !.source.poster = p]

\* component.setPoster( poster )
SetPoster ==
    \E p \in PosterArgs :
        Becomes(setPoster(Component, p, 0, NoListeners), SetPosterCall(p), NoListeners)

\* Sources come and go in between, with their own posters
SelectSourcePoster ==
    \E i \in {NullIndex, Num(0), Num(1), Num(2)} :
        Becomes(selectSource(Component, i, NoHook, TRUE, 0, NoListeners),
                SelectSourceCall(i, NoHook, TRUE), NoListeners)

UnsetSourcePoster ==
    Becomes(unsetSource(Component, FALSE, 0, NoListeners), UnsetSourceCall(FALSE), NoListeners)

NextPoster ==
    \/ SetPoster
    \/ SelectSourcePoster
    \/ UnsetSourcePoster

SpecPoster == Init /\ [][NextPoster]_vars


----------------------------------------------------------------------------
(* Source elements that were replaced or removed: every source element      *)
(* carries its own error listener, and the error event of an element whose  *)
(* load failed is delivered as a task of its own, which may run after a     *)
(* later setSource or unsetSource removed the element from the video        *)

SetSourcePlain ==
    \E s \in {PlainSource("A"), PlainSource("B")} :
        Becomes(setSource([Component EXCEPT !.caller = Held(s)], Held(s), 0, NoListeners),
                SetSourceCall(s), NoListeners)

UnsetSourcePlain ==
    Becomes(unsetSource(Component, TRUE, 0, NoListeners), UnsetSourceCall(TRUE), NoListeners)

\* The operation before removed the source element that was attached
ElementRemoved ==
    /\ last.call.op \in {"setSource", "unsetSource"}
    /\ last.pre.children # << >>
    /\ \E i \in 1 .. Len(last.log) : last.log[i].ev \in {"load", EvUnset}

\* The error event of the removed element: its listener calls
\* #event_source_error as that of an attached element does
StaleSourceError ==
    /\ ElementRemoved
    /\ Becomes(event_source_error(Component, 0, NoListeners), SignalCall("staleError"),
               NoListeners)

NextStale ==
    \/ SetSourcePlain
    \/ UnsetSourcePlain
    \/ CanPlay
    \/ Play
    \/ Pause
    \/ Ended
    \/ SourceError
    \/ StaleSourceError

SpecStale == Init /\ [][NextStale]_vars

----------------------------------------------------------------------------
(* The Responsive plugin loaded without a media query handler:              *)
(* responsive.media is null, its default                                    *)

InertConfig == [ResponsiveConfig EXCEPT !.mediaHandler = FALSE]

InitInert == Start(InertConfig, InitializedStates, NewVideo, {}, NewSound)

SelectSourceInert ==
    \E i \in {NullIndex, Num(0), Num(1)}, L \in SimpleListeners :
        Becomes(selectSource(Component, i, NoHook, TRUE, 0, L),
                SelectSourceCall(i, NoHook, TRUE), L)

SetSourceInert ==
    \E s \in {PlainSource("D"), PlainSource("E"),
               [PlainSource("S") EXCEPT !.responsive = ResponsiveMap]},
       L \in SimpleListeners :
        Becomes(setSource([Component EXCEPT !.caller = Held(s)], Held(s), 0, L),
                SetSourceCall(s), L)

NextInert ==
    \/ SelectSourceInert
    \/ SetSourceInert
    \/ CanPlay
    \/ VideoPlays
    \/ VideoSeeks

SpecInert == InitInert /\ [][NextInert]_vars

----------------------------------------------------------------------------
(***************************************************************************)
(* The Fullscreen plugin.  element.requestFullscreen() returns a promise;  *)
(* the state is set by its then-callback, a later task, so the callback    *)
(* interleaves with everything called in between.                          *)
(***************************************************************************)
\* The most requests whose promise is pending at once
MaxRequests == 2

FullscreenCall(name) == [SignalCall(name) EXCEPT !.op = name]

\* What a call to the plugin leaves behind: the component's states, the
\* plugin's fields and the record of the call
FullscreenBecomes(name, S, f) ==
    /\ states' = S
    /\ fullscreen' = f
    /\ last' = [call |-> FullscreenCall(name), L |-> NoListeners, pre |-> Before,
                log |-> << >>, threw |-> FALSE, given |-> PlainSource(Undefined)]
    /\ UNCHANGED << current_index, current_source, children, poster, config, video,
                    responsive, media, sound, progress, controls >>

\* The then-callback of #request_fullscreen: this.context.states.set( 'fullscreen' )
request_resolved(S, f) == StatesSet(S, "fullscreen")

\* #request_fullscreen( fullscreen, minimize ): the promise is pending
request_fullscreen(f, by) == [f EXCEPT !.requests = Append(@, by)]

\* #exit_fullscreen( fullscreen, minimize, noexit )
exit_fullscreen(f, noexit) == IF noexit THEN f ELSE [f EXCEPT !.document = FALSE]

\* isFullscreen()
isFullscreen(S) == "fullscreen" \in S

\* enableFullscreen()
enableFullscreen ==
    FullscreenBecomes("enableFullscreen", states,
                      [fullscreen EXCEPT !.enabled = TRUE, !.disabled = FALSE])

\* disableFullscreen(): if ( this.isFullscreen() ) this.exitFullscreen()
disabled(S, f) ==
    IF isFullscreen(S)
    THEN [S |-> StatesUnset(S, "fullscreen"),
          f |-> exit_fullscreen([f EXCEPT !.enabled = FALSE], FALSE)]
    ELSE [S |-> S, f |-> [f EXCEPT !.enabled = FALSE]]

disableFullscreen ==
    \E r \in {disabled(states, fullscreen)} :
        FullscreenBecomes("disableFullscreen", r.S, [r.f EXCEPT !.disabled = TRUE])

\* requestFullscreen()
requestFullscreen ==
    /\ Len(fullscreen.requests) < MaxRequests
    /\ FullscreenBecomes("requestFullscreen", states,
                         [request_fullscreen(fullscreen, "call") EXCEPT !.disabled = FALSE])

\* exitFullscreen()
exitFullscreen ==
    FullscreenBecomes("exitFullscreen", StatesUnset(states, "fullscreen"),
                      exit_fullscreen(fullscreen, FALSE))

\* The listener of video.controls.dblclick bound by #bind_dblclick
ControlsDblclick ==
    /\ Len(fullscreen.requests) < MaxRequests
    /\ IF ~fullscreen.enabled \/ "playable" \notin states
       THEN FullscreenBecomes("dblclick", states, fullscreen)
       ELSE IF isFullscreen(states)
            THEN FullscreenBecomes("dblclick", StatesUnset(states, "fullscreen"),
                                   exit_fullscreen(fullscreen, FALSE))
            ELSE FullscreenBecomes("dblclick", states,
                                   request_fullscreen(fullscreen, "dblclick"))

\* The click listener of the fullscreen button bound by #bind_toggle
FullscreenClick ==
    /\ Len(fullscreen.requests) < MaxRequests
    /\ IF ~fullscreen.enabled
       THEN FullscreenBecomes("click", states, fullscreen)
       ELSE FullscreenBecomes("click", states, request_fullscreen(fullscreen, "click"))

\* The click listener of the minimize button bound by #bind_toggle
MinimizeClick ==
    IF ~fullscreen.enabled
    THEN FullscreenBecomes("minimize", states, fullscreen)
    ELSE FullscreenBecomes("minimize", StatesUnset(states, "fullscreen"),
                           exit_fullscreen(fullscreen, FALSE))

\* The sequence s without its i-th element
Without(s, i) == [ j \in 1 .. Len(s) - 1 |-> IF j < i THEN s[j] ELSE s[j + 1] ]

\* A pending request is granted: the document shows the component
\* fullscreen and the then-callback runs
RequestResolves ==
    \E i \in 1 .. Len(fullscreen.requests) :
        FullscreenBecomes("resolved", request_resolved(states, fullscreen),
                          [fullscreen EXCEPT !.requests = Without(@, i), !.document = TRUE,
                                             !.granted = fullscreen.requests[i]])

\* A pending request is refused: the catch-callback only reports
RequestRejects ==
    \E i \in 1 .. Len(fullscreen.requests) :
        FullscreenBecomes("rejected", states, [fullscreen EXCEPT !.requests = Without(@, i)])

\* The user leaves the fullscreen mode (Escape): fullscreenchange runs
\* exit_handler, which only unsets the state
FullscreenLeft ==
    /\ fullscreen.document
    /\ FullscreenBecomes("fullscreenchange", StatesUnset(states, "fullscreen"),
                         exit_fullscreen([fullscreen EXCEPT !.document = FALSE], TRUE))

NextFullscreen ==
    \/ SetSourcePlain
    \/ CanPlay
    \/ enableFullscreen
    \/ disableFullscreen
    \/ requestFullscreen
    \/ exitFullscreen
    \/ ControlsDblclick
    \/ FullscreenClick
    \/ MinimizeClick
    \/ RequestResolves
    \/ RequestRejects
    \/ FullscreenLeft

SpecFullscreen == Init /\ [][NextFullscreen]_vars

----------------------------------------------------------------------------
(***************************************************************************)
(* The Progress plugin: interactive( state ) and the listeners of the      *)
(* range input.                                                            *)
(***************************************************************************)
\* video.duration of every source, and the values the range input takes
Duration == 200
RangeValues == {0, 25, 50, 75, 100}

ProgressCall(name, arg) == [op |-> name, arg |-> arg]

\* interactive( state )
interactive(p, state) ==
    [p EXCEPT !.attribute = ~state, !.readonly = ~state, !.interactive = Some(~state)]

\* initComponent: the initial interactive mode
initComponent(p) ==
    IF p.interactive # Null
    THEN interactive(p, p.interactive[1])
    ELSE [p EXCEPT !.interactive = Some(~p.readonly)]

\* The range input's listeners: if ( !config.get( 'progress.interactive' ) ) return
RangeApplies(p) == p.interactive = Some(TRUE)

\* video.duration / 100 * parseFloat( progress.value )
SeekTarget(value) == (Duration * value) \div 100

ProgressBecomes(k, p, v, log) ==
    /\ progress' = p
    /\ video' = v
    /\ last' = [call |-> k, L |-> NoListeners, pre |-> Before, log |-> log,
                threw |-> FALSE, given |-> PlainSource(Undefined)]
    /\ UNCHANGED << current_index, current_source, children, states, poster, config,
                    responsive, media, sound, fullscreen, controls >>

\* A component whose Progress plugin is initialized: the config and the
\* markup of the range input are the page's
InitProgress ==
    \E i \in {Null, Some(TRUE), Some(FALSE)}, a \in BOOLEAN :
        /\ current_index = Null
        /\ current_source = Null
        /\ children = << >>
        /\ states = InitializedStates
        /\ poster = Null
        /\ config = [DefaultConfig EXCEPT !.plugins = {"progress"}]
        /\ video = NewVideo
        /\ responsive = NothingRemembered
        /\ media = {}
        /\ sound = NewSound
        /\ fullscreen = FullscreenStart
        /\ progress = [initComponent([ProgressStart EXCEPT !.interactive = i, !.attribute = a])
                          EXCEPT !.called = Null]
        /\ controls = ControlsStart
        /\ last = [call |-> NoCall, L |-> NoListeners, pre |-> Before, log |-> << >>,
                   threw |-> FALSE, given |-> PlainSource(Undefined), chain |-> << >>]

Interactive ==
    \E state \in BOOLEAN :
        ProgressBecomes(ProgressCall("interactive", state),
                        [interactive(progress, state) EXCEPT !.called = Some(state)],
                        video, << >>)

\* The listener of an input or change event with the range input at value
RangeHandled(name, value) ==
    IF RangeApplies(progress)
    THEN ProgressBecomes(ProgressCall(name, value), progress,
                         [video EXCEPT !.currentTime = SeekTarget(value)],
                         << [ev |-> "seek", d |-> 0, time |-> SeekTarget(value)] >>)
    ELSE ProgressBecomes(ProgressCall(name, value), progress, video, << >>)

\* The range input is dragged while the video's duration is known
RangeInput ==
    /\ "playable" \in states
    /\ \E value \in RangeValues : RangeHandled("input", value)

\* The drag is complete
RangeChange ==
    /\ "playable" \in states
    /\ last.call.op = "input"
    /\ RangeHandled("change", last.call.arg)

NextProgress ==
    \/ SetSourcePlain
    \/ CanPlay
    \/ Interactive
    \/ RangeInput
    \/ RangeChange

SpecProgress == InitProgress /\ [][NextProgress]_vars

----------------------------------------------------------------------------
(***************************************************************************)
(* The visibility of the controls: the mousemove listener and its hide     *)
(* timer.  Time is counted in ticks; a timer is the tick it is due at, and *)
(* it runs when it is due, before the clock goes on.                       *)
(***************************************************************************)
\* config 'controls.timeout' in ticks, and the last tick of the clock
ControlsTimeout == 2
MaxTime == 5

ControlsBecomes(name, S, ct) ==
    /\ states' = S
    /\ controls' = ct
    /\ last' = [call |-> SignalCall(name), L |-> NoListeners, pre |-> Before,
                log |-> << >>, threw |-> FALSE, given |-> PlainSource(Undefined)]
    /\ UNCHANGED << current_index, current_source, children, poster, config, video,
                    responsive, media, sound, fullscreen, progress >>

\* Mutant: the mousemove listener leaves the older timer pending.
ClearTimeout_Never(ct) == ct.timers

\* if ( controls_timeout ) window.clearTimeout( controls_timeout )
ClearTimeout(ct) == IF ct.timeout # Null THEN ct.timers \ {ct.timeout[1]} ELSE ct.timers

\* controls_timeout = window.setTimeout( ..., config.get( 'controls.timeout' ) )
SetTimeout(ct) ==
    [ct EXCEPT !.timers = ClearTimeout(ct) \cup {ct.now + ControlsTimeout},
               !.timeout = Some(ct.now + ControlsTimeout),
               !.moved = Some(ct.now),
               !.cancelled = \E t \in ct.timers : t < ct.now + ControlsTimeout]

\* The mousemove listener of the controls
ControlsMousemove ==
    /\ controls.now + ControlsTimeout <= MaxTime
    /\ IF "playable" \in states
       THEN ControlsBecomes("mousemove", StatesSet(states, "controlsShow"), SetTimeout(controls))
       ELSE ControlsBecomes("mousemove", StatesUnset(states, "controlsShow"), controls)

\* A hide timer is due: this.states.unset( 'controlsShow' )
HideTimeout ==
    \E t \in controls.timers :
        /\ t <= controls.now
        /\ ControlsBecomes("timeout", StatesUnset(states, "controlsShow"),
                           [controls EXCEPT !.timers = @ \ {t}])

\* Time passes while no timer is due
Tick ==
    /\ controls.now < MaxTime
    /\ \A t \in controls.timers : controls.now < t
    /\ controls' = [controls EXCEPT !.now = @ + 1]
    /\ UNCHANGED << current_index, current_source, children, states, poster, config, video,
                    responsive, media, sound, fullscreen, progress, last >>

NextControls ==
    \/ SetSourcePlain
    \/ CanPlay
    \/ Play
    \/ Playing
    \/ Pause
    \/ ControlsMousemove
    \/ HideTimeout
    \/ Tick

SpecControls == Init /\ [][NextControls]_vars

\* The browser runs a timer that is due, and time passes
SpecControlsFair == SpecControls /\ WF_vars(HideTimeout) /\ WF_vars(Tick)
----------------------------------------------------------------------------
(* Reading the record of the last operation *)

\* The entries of the operation itself, without those of nested calls
Top == SelectSeq(last.log, LAMBDA e : e.d = 0)
\* The events the operation dispatched, in order
Dispatched == SelectSeq(Top, LAMBDA e : e.ev \in Events)
EventNames(log) == [i \in 1 .. Len(log) |-> log[i].ev]
Has(ev) == \E i \in 1 .. Len(Top) : Top[i].ev = ev
CountOf(ev) == Cardinality({ i \in 1 .. Len(Top) : Top[i].ev = ev })
IndexOf(ev) == CHOOSE i \in 1 .. Len(Top) : Top[i].ev = ev
At(ev) == Top[IndexOf(ev)]

LifecycleStates == states \cap Lifecycle
SourceCalls == {"selectSource", "setSource", "unsetSource"}
\* source.update was dispatched and a listener prevented its default
Vetoed == last.L.veto /\ Has(EvUpdate)
SelectionUnchanged ==
    /\ current_index = last.pre.index
    /\ current_source = last.pre.source
    /\ LifecycleStates = last.pre.states

----------------------------------------------------------------------------
(* C1 *)

\* C1: when a listener vetoes source.update during selectSource(i),
\* setSource(s) or unsetSource(), the call returns with currentIndex,
\* currentSource and every lifecycle state as they were before the call, and
\* neither source.before, source.set nor source.unset was dispatched.
C1_VetoChangesNothing ==
    (last.call.op \in SourceCalls /\ Vetoed) =>
        /\ SelectionUnchanged
        /\ ~Has(EvBefore) /\ ~Has(EvSet) /\ ~Has(EvUnset)

----------------------------------------------------------------------------
(* C2 *)

\* C2: in every reachable state currentIndex is non-null if and only if
\* currentSource is non-null.
C2_IndexIffSource == (current_index # Null) <=> (current_source # Null)

----------------------------------------------------------------------------
(* C3 *)

\* C3: after any sequence of setSource, selectSource and unsetSource calls,
\* also ones made by listeners while an outer call is running, the video
\* element holds at most one attached source element, that element is the one
\* currentSource refers to, and none is attached when currentSource is null.
C3_OneAttachedSource ==
    /\ Len(children) <= 1
    /\ \A i \in 1 .. Len(children) : current_source = Some(children[i])


C3_Witness ==
    /\ last.call.op = "setSource"
    /\ last.L.at = EvBefore
    /\ \E i \in 1 .. Len(last.log) : last.log[i].d = 1 /\ last.log[i].ev = EvSet
    /\ Has(EvSet)

----------------------------------------------------------------------------
(* C4 *)

\* Where the second call of setSourceTwice begins in the log, and its part
SecondAt == IndexOf("call")
First == SubSeq(Top, 1, SecondAt - 1)
Second == SubSeq(Top, SecondAt + 1, Len(Top))
CountIn(log, ev) == Cardinality({ i \in 1 .. Len(log) : log[i].ev = ev })

\* A source of the documented shape: a non-empty src, a poster that is a
\* string or absent
WellFormed(s) ==
    /\ s.pojo
    /\ s.src \notin {"", Undefined, NotAString}
    /\ s.poster # NotAString

TwiceUnvetoed ==
    /\ last.call.op = "setSourceTwice"
    /\ WellFormed(last.call.source)
    /\ ~last.L.veto

\* The second call is a no-op: it dispatches source.update only, does not
\* enter loading, does not load, and leaves the source and the states alone.
SecondIsNoOp ==
    /\ Has("call")
    /\ EventNames(Second) = << EvUpdate >>
    /\ Second[1].states = At("call").states
    /\ LifecycleStates = At("call").states
    /\ getCurrentSource(Component) = At("call").cur
    /\ Len(children) = At("call").nchild
    /\ ~last.threw

\* C4 as stated: calling setSource twice in succession with the same
\* non-empty src and no veto dispatches source.set exactly once, and the
\* second call neither enters loading nor reloads nor changes currentSource
\* or a lifecycle state.
C4_TwiceSetsExactlyOnce ==
    TwiceUnvetoed => (CountOf(EvSet) = 1 /\ SecondIsNoOp)

\* C4 amended: source.set is dispatched at most once, by the first call, and
\* exactly once when src was not already the address of the current source
\* before the first call; the second call is a no-op.
C4_TwiceSetsAtMostOnce ==
    TwiceUnvetoed =>
        /\ SecondIsNoOp
        /\ CountIn(First, EvSet) <= 1
        /\ CountIn(First, EvSet) = 1 <=>
               (Some(last.call.source.src) # getCurrentSource(last.pre))
        /\ CountIn(First, "load") = CountIn(First, EvSet)

C4_Witness ==
    /\ TwiceUnvetoed
    /\ CountOf(EvSet) = 1
    /\ Has("call")
    /\ last.pre.source # Null

----------------------------------------------------------------------------
(* C5 *)

UnsetCall ==
    \/ last.call.op = "unsetSource"
    \/ last.call.op = "selectSource" /\ last.call.index = NullIndex

Cleared ==
    /\ current_index = Null
    /\ current_source = Null
    /\ "sourceNone" \in states

\* C5 as stated: unsetSource() always results in currentIndex = null,
\* currentSource = null and sourceNone set, whatever listeners are registered
\* on source.update (and none on the other events).
C5_UnsetAlwaysClears ==
    (UnsetCall /\ last.L.at \in {"none", EvUpdate}) => Cleared

\* C5 amended: unsetSource() whose source.update event is not vetoed has
\* currentIndex = null, currentSource = null and sourceNone set at the moment
\* source.unset is dispatched, and returns so unless a listener of
\* source.unset itself sets a source.
C5_UnvetoedUnsetClears ==
    (UnsetCall /\ ~Vetoed) =>
        /\ CountOf(EvUnset) = 1
        /\ At(EvUnset).index = Null
        /\ At(EvUnset).cur = Null
        /\ "sourceNone" \in At(EvUnset).states
        /\ last.L.at # EvUnset => Cleared

C5_Witness ==
    /\ last.call.op = "unsetSource"
    /\ ~Vetoed
    /\ last.L.at = EvPosterUnset
    /\ last.L.call.op = "setSource"
    /\ last.pre.index # Null
    /\ last.pre.source # Null
    /\ Cleared

----------------------------------------------------------------------------
(* C6 *)

\* The { index, source } record the hooks leave names an entry of the list
Resolves(data) ==
    /\ data.source # Null
    /\ data.index.t = "number"
    /\ data.index.n \in 0 .. (Len(Sources) - 1)

\* selectSource( i ) with a valid index i whose { index, source } record
\* still resolves after the plugins' hooks ran
SelectOfValid ==
    /\ last.call.op = "selectSource"
    /\ last.call.index.t = "number"
    /\ last.call.index.n \in 0 .. (Len(Sources) - 1)
    /\ last.call.isarray
    /\ Resolves(HookData(last.call.index.n, last.call.hook))

SelectedIndex == HookData(last.call.index.n, last.call.hook).index.n

\* C6: for every valid index i, getCurrentIndex() right after selectSource(i)
\* returns i, or the valid index a plugin's selectSource hook wrote instead;
\* also when the selected entry has the src of the already active source.
C6_SelectCommitsIndex ==
    SelectOfValid => getCurrentIndex(Component) = Some(SelectedIndex)

C6_Witness ==
    /\ SelectOfValid
    /\ last.call.hook = NoHook
    /\ ~Vetoed
    /\ getCurrentSource(last.pre) = Some(SourceAt(last.call.index.n).src)
    /\ last.pre.index # Some(last.call.index.n)
    /\ ~Has(EvSet)
    /\ current_index = Some(last.call.index.n)

----------------------------------------------------------------------------
(* C7 *)

\* A setSource call, made directly or by selectSource, that committed a
\* new source
Committed ==
    /\ last.call.op \in {"setSource", "selectSource"}
    /\ Has(EvSet)

\* C7: a setSource call that commits a new source dispatches, once each and
\* in this order, source.update, poster.set or poster.unset, source.before,
\* source.set; loading is set when source.before is dispatched; the new
\* source is committed and loaded only after source.before, where
\* getCurrentSource() still is the previous address; sourceNone is cleared
\* when source.set is dispatched.
C7_CommitOrder ==
    Committed =>
        /\ \/ EventNames(Dispatched) = << EvUpdate, EvPosterSet, EvBefore, EvSet >>
           \/ EventNames(Dispatched) = << EvUpdate, EvPosterUnset, EvBefore, EvSet >>
        /\ "loading" \in At(EvBefore).states
        /\ At(EvBefore).cur = getCurrentSource(last.pre)
        /\ At(EvBefore).nchild = 0
        /\ CountOf("load") = 1
        /\ IndexOf(EvBefore) < IndexOf("load")
        /\ IndexOf("load") < IndexOf(EvSet)
        /\ At("load").cur = getCurrentSource(Component)
        /\ At(EvSet).cur = getCurrentSource(Component)
        /\ At(EvSet).cur # At(EvBefore).cur
        /\ "sourceNone" \notin At(EvSet).states

C7_Witness ==
    /\ Committed
    /\ last.pre.source # Null
    /\ EventNames(Dispatched) = << EvUpdate, EvPosterSet, EvBefore, EvSet >>

----------------------------------------------------------------------------
(* C8 *)

\* setSource with a well-formed source whose src differs from the current
\* address, and no listener that vetoes source.update
UnvetoedChange ==
    /\ last.call.op = "setSource"
    /\ WellFormed(last.call.source)
    /\ Some(last.call.source.src) # getCurrentSource(last.pre)
    /\ ~last.L.veto

\* C8: dispatching the cancelable source.update returns true unless a
\* listener vetoed it: setSource with a non-empty src that differs from the
\* current address and no vetoing listener (or no listener at all) enters
\* loading, replaces currentSource and dispatches source.set.
C8_UnvetoedSetProceeds ==
    UnvetoedChange =>
        /\ Has(EvBefore) /\ "loading" \in At(EvBefore).states
        /\ getCurrentSource(Component) = Some(last.call.source.src)
        /\ children = << current_source[1] >>
        /\ CountOf(EvSet) = 1
        /\ ~last.threw

C8_Witness ==
    /\ UnvetoedChange
    /\ last.L = NoListeners
    /\ last.pre.source # Null
    /\ CountOf(EvSet) = 1
    /\ "loading" \in states

----------------------------------------------------------------------------
(* C9 *)

\* selectSource( index ) with an index that is not null and cannot be
\* selected: not a number, the source list not an Array, or an index or
\* source that does not resolve before or after the plugins' hooks ran
Unselectable(k) ==
    /\ k.index.t # "null"
    /\ \/ k.index.t # "number"
       \/ ~k.isarray
       \/ k.index.n \notin 0 .. (Len(Sources) - 1)
       \/ ~Resolves(HookData(k.index.n, k.hook))

\* C9: selectSource fails with an error for such an index; currentIndex,
\* currentSource and the lifecycle states are unchanged and no event is
\* dispatched; a following selectSource with a valid index succeeds.
C9_FailedSelectChangesNothing ==
    /\ (last.call.op = "selectSource" /\ Unselectable(last.call)) =>
            /\ last.threw
            /\ EventNames(last.log) = << "throw" >>
            /\ SelectionUnchanged
            /\ children = last.pre.children
    /\ (last.call.op = "selectSourceRetry" /\ Unselectable(last.call)) =>
            /\ EventNames(SubSeq(Top, 1, 2)) = << "throw", "call" >>
            /\ At("call").index = last.pre.index
            /\ At("call").cur = getCurrentSource(last.pre)
            /\ At("call").states = last.pre.states
            /\ ~last.threw
            /\ current_index # Null
            /\ getCurrentSource(Component) = Some(SourceAt(current_index[1]).src)
            /\ getCurrentSource(Component) = Some(last.call.source.src)

C9_Witness ==
    /\ last.call.op = "selectSourceRetry"
    /\ last.call.hook = SourceHook(Null)
    /\ last.pre.source # Null
    /\ Has(EvSet)
    /\ current_index = Some(1)

----------------------------------------------------------------------------
(* C10 *)

\* C10: on a load failure, error is set (and paused, playing, playable and
\* loading are cleared) before source.error is dispatched, source.error is
\* dispatched exactly once, the exception is raised only after the dispatch,
\* and currentIndex and currentSource are not cleared.
C10_ErrorThenEventThenThrow ==
    last.call.op = "error" =>
        /\ EventNames(last.log) = << EvError, "throw" >>
        /\ "error" \in At(EvError).states
        /\ At(EvError).states \cap {"paused", "playing", "playable", "loading"} = {}
        /\ "error" \in states
        /\ states \cap {"paused", "playing", "playable", "loading"} = {}
        /\ last.threw
        /\ current_index = last.pre.index
        /\ current_source = last.pre.source

C10_Witness ==
    /\ last.call.op = "error"
    /\ last.pre.states \cap {"playing", "playable"} # {}
    /\ last.pre.index # Null
    /\ current_index # Null
    /\ "error" \in states

----------------------------------------------------------------------------
(* C11 *)

\* The lifecycle map as the specification words it
LifecycleMap(name) ==
    CASE name = "loading" -> {"paused", "playing", "playable", "error"}
      [] name = "playable" -> {"loading"}
      [] name = "playing" -> {"paused"}
      [] name = "paused" -> {"playing"}
      [] name = "ended" -> {"playing"}
      [] name = "error" -> {"paused", "playing", "playable", "loading"}
      [] OTHER -> {}

\* C11: for every registered state s, right after set(s) the state s is set
\* and every state of the unsets list of s is not set, s was marked before its
\* dependents were cleared, and no other state changed; the unsets lists of
\* the lifecycle states are those of the lifecycle map.
C11_SetMarksThenUnsets ==
    last.call.op = "states.set" =>
        /\ last.name \in states
        /\ \A u \in LifecycleMap(last.name) \cup Unsets(last.name) : u \notin states
        /\ last.name \in Lifecycle => Unsets(last.name) = LifecycleMap(last.name)
        /\ last.log[1] = last.was \cup {last.name}
        /\ last.log[2] = states
        /\ \A x \in Registered \ ({last.name} \cup LifecycleMap(last.name) \cup Unsets(last.name)) :
            (x \in states) <=> (x \in last.was)

\* error is set while playable, paused and ended are set: the first two are
\* cleared, ended is not
C11_Witness ==
    /\ last.call.op = "states.set"
    /\ last.name = "error"
    /\ {"paused", "playable", "ended"} \subseteq last.was
    /\ states \cap {"error", "paused", "playable", "ended"} = {"error", "ended"}

----------------------------------------------------------------------------
(* C12 *)

\* selectSource( i ) was performed by init(): for an index of the list the
\* index was committed and source.update dispatched with it, and unless a
\* listener vetoed the i-th source was set; for another index the call threw
\* before any event.  source.none was not dispatched.
SelectPerformed(i) ==
    /\ ~Has(EvNone)
    /\ IF IsIndex(i)
       THEN /\ Dispatched # << >>
            /\ Dispatched[1].ev = EvUpdate
            /\ Dispatched[1].index = Some(i)
            /\ current_index = Some(i)
            /\ ~last.threw
            /\ ~last.L.veto =>
                /\ Has(EvSet)
                /\ current_source # Null
                /\ current_source[1].src = SourceAt(i).src
       ELSE /\ last.threw
            /\ Dispatched = << >>
            /\ current_index = Null
            /\ current_source = Null

\* init() selected nothing: source.none was dispatched once, with no source
\* and no index and the sourceNone state set, and nothing else was dispatched
NoneAnnounced ==
    /\ CountOf(EvNone) = 1
    /\ Dispatched = << >>
    /\ ~last.threw
    /\ At(EvNone).index = Null
    /\ At(EvNone).cur = Null
    /\ "sourceNone" \in At(EvNone).states
    /\ last.L.at # EvNone =>
        /\ current_index = Null
        /\ current_source = Null
        /\ "sourceNone" \in states

\* C12: after init(): if config selected is a number, selectSource(selected)
\* was performed; otherwise if the source list has exactly one entry,
\* selectSource(0) was performed; otherwise sourceNone is set, currentIndex
\* and currentSource are null, source.none was dispatched exactly once and no
\* source.update was dispatched.
C12_InitSelectsOrAnnouncesNone ==
    last.call.op = "init" =>
        IF config.selected.t = "number" THEN SelectPerformed(config.selected.n)
        ELSE IF Len(config.sources) = 1 THEN SelectPerformed(0)
        ELSE NoneAnnounced

\* init() with two sources and none selected
C12_Witness ==
    /\ last.call.op = "init"
    /\ config.selected.t # "number"
    /\ Len(config.sources) = 2
    /\ Has(EvNone)
    /\ current_source = Null
    /\ {"sourceNone", "initialized"} \subseteq states

----------------------------------------------------------------------------
(* C13 *)

\* C13: a can-play signal changes lifecycle state only when loading is set:
\* then playable is set and afterwards paused is set, leaving loading and
\* playing unset and the other lifecycle states as they were; a can-play
\* signal received while loading is not set changes no state.
C13_CanPlayOnlyWhileLoading ==
    last.call.op = "canplay" =>
        IF "loading" \in last.pre.states
        THEN /\ Len(last.log) = 2
             /\ last.log[1].name = "playable"
             /\ last.log[1].states = (last.pre.states \ {"loading"}) \cup {"playable"}
             /\ last.log[2].name = "paused"
             /\ last.log[2].states = (last.log[1].states \ {"playing"}) \cup {"paused"}
             /\ LifecycleStates = last.log[2].states
             /\ {"playable", "paused"} \subseteq states
             /\ states \cap {"loading", "playing"} = {}
        ELSE /\ last.log = << >>
             /\ LifecycleStates = last.pre.states

\* can play arrives while a source is loading
C13_Witness ==
    /\ last.call.op = "canplay"
    /\ "loading" \in last.pre.states
    /\ "playable" \notin last.pre.states
    /\ {"playable", "paused"} \subseteq states
    /\ "loading" \notin states

----------------------------------------------------------------------------
(* C14 *)

\* C14: setSource works on a copy of its argument: whatever the listeners of
\* source.update (the Responsive plugin's overrides, a listener that assigns
\* to the event's source) do to the source of the event, the entries of
\* config sources and the object the caller passed are as they were; and when
\* the caller changes its object after the call, the current source and the
\* attached source element stay as they are.
C14_SetSourceWorksOnCopy ==
    /\ config.sources = ResponsiveSources
    /\ last.call.op = "setSource" => last.given = Held(last.call.source)
    /\ last.call.op = "mutateSource" =>
        /\ current_source = last.pre.source
        /\ children = last.pre.children

\* setSource with an object that has breakpoints, both matching: the source
\* that was set has the override, the caller's object has not
C14_Witness ==
    /\ last.call.op = "setSource"
    /\ last.call.source.responsive = ResponsiveMap
    /\ media = Queries
    /\ Has(EvSet)
    /\ current_source # Null
    /\ current_source[1].src = "B"
    /\ last.given.src = "S"

\* selectSource of the entry with breakpoints, with a listener that rewrites
\* the source: the entry of config sources is as it was
C14_WitnessSelected ==
    /\ last.call.op = "selectSource"
    /\ last.L.rewrite # NoRewrite
    /\ Has(EvSet)
    /\ current_source[1].src = "X"
    /\ config.sources[1].src = "S"

----------------------------------------------------------------------------
(* C15 *)

RECURSIVE RecordAfter(_, _, _)
\* The { index, source } record after the first k of the loaded plugins P
\* ran on it, for selectSource( i ): a plugin without the hook leaves it as
\* the plugins before left it, the others change what these left
RecordAfter(P, k, i) ==
    IF k = 0 THEN [index |-> i, source |-> Some(Sources[i + 1])]
    ELSE LET before == RecordAfter(P, k - 1, i)
         IN  CASE P[k] = NextIndex -> [before EXCEPT !.index = @ + 1]
               [] P[k] = LooksUp ->
                    [before EXCEPT !.source = IF before.index < Len(Sources)
                                              THEN Some(Sources[before.index + 1])
                                              ELSE Null]
               [] OTHER -> before

\* selectSource committed the index and set the source of the record, or
\* threw because the record does not name an entry of the list
CommitsRecord(data) ==
    IF data.source = Null \/ data.index >= Len(Sources)
    THEN /\ last.threw
         /\ Dispatched = << >>
         /\ current_index = last.pre.index
         /\ current_source = last.pre.source
    ELSE /\ current_index = Some(data.index)
         /\ Dispatched # << >>
         /\ Dispatched[1].ev = EvUpdate
         /\ Dispatched[1].index = Some(data.index)
         /\ IF data.source[1].src = "" THEN last.threw
            ELSE /\ ~last.threw
                 /\ current_source # Null
                 /\ current_source[1].src = data.source[1].src

\* C15: the selectSource hook runs over the loaded plugins in load order on
\* one shared { index, source } record: each plugin sees what the plugins
\* loaded before it wrote, plugins without the hook are skipped, and
\* selectSource commits the index and the source that the record holds after
\* the last plugin ran.
C15_HooksRunInLoadOrder ==
    last.call.op = "selectSource" =>
        CommitsRecord(RecordAfter(last.call.hook, Len(last.call.hook), last.call.index.n))

\* A plugin that moves the index on, one without the hook, and one that
\* looks the source up at the index the first one wrote
C15_Witness ==
    /\ last.call.op = "selectSource"
    /\ last.call.hook = << NextIndex, Hookless, LooksUp >>
    /\ last.call.index = Num(0)
    /\ current_index = Some(1)
    /\ current_source # Null
    /\ current_source[1].src = "B"

----------------------------------------------------------------------------
(* C16 *)

\* selectSource( i ) for an index of the list, with no plugin loaded
SelectWithoutPlugins ==
    /\ last.call.op = "selectSource"
    /\ last.call.hook = << >>
    /\ last.call.isarray
    /\ last.call.index.t = "number"
    /\ last.call.index.n \in 0 .. Len(Sources) - 1

\* The source element and the poster are those of the entry
IsEntry(e) ==
    /\ current_source # Null
    /\ current_source[1].src = e.src
    /\ current_source[1].type = (IF e.type = Undefined THEN "video/mp4" ELSE e.type)
    /\ Has(EvSet) => poster = (IF e.poster \in {Undefined, ""} THEN Null ELSE Some(e.poster))

\* C16: with no plugin loaded the { index, source } record is as selectSource
\* made it, so selectSource(i) commits index i and, unless a listener vetoes,
\* sets exactly the i-th entry of the source list (or throws when that entry
\* has no src).
C16_NoPluginsCommitArgument ==
    SelectWithoutPlugins =>
        /\ current_index = Some(last.call.index.n)
        /\ Dispatched # << >>
        /\ Dispatched[1].ev = EvUpdate
        /\ Dispatched[1].index = Some(last.call.index.n)
        /\ ~Vetoed =>
            IF Sources[last.call.index.n + 1].src = "" THEN last.threw
            ELSE ~last.threw /\ IsEntry(Sources[last.call.index.n + 1])

\* selectSource( 1 ) while the entry 0 is the current source
C16_Witness ==
    /\ SelectWithoutPlugins
    /\ last.call.index.n = 1
    /\ last.pre.index = Some(0)
    /\ Has(EvSet)
    /\ current_index = Some(1)
    /\ current_source[1].src = "B"

----------------------------------------------------------------------------
(* C17 *)

\* The breakpoints of a source, by their place in the declaration, whose
\* query matches and which override the field
Overriding(s, field) ==
    { k \in 1 .. Len(s.responsive) :
        /\ s.responsive[k].query \in media
        /\ s.responsive[k].fields[field] # Absent }

\* The resolved value of a field: that of the last declared matching
\* breakpoint that has the field, and the base source's value when there is
\* none
ResolvedField(s, field) ==
    IF Overriding(s, field) = {} THEN s[field]
    ELSE LET k == CHOOSE k \in Overriding(s, field) : \A j \in Overriding(s, field) : j <= k
         IN  s.responsive[k].fields[field]

\* The source the operation started from
Candidate ==
    IF last.call.op = "setSource" THEN last.call.source
    ELSE ResponsiveSources[last.call.index.n + 1]

\* The operation resolved a candidate source that has a src, and no listener
\* other than the Responsive plugin's interfered
ResolvesCandidate ==
    /\ ~last.L.veto
    /\ last.L.rewrite = NoRewrite
    /\ \/ last.call.op = "setSource" /\ last.call.source.src \notin {"", Undefined}
       \/ last.call.op \in {"selectSource", "mediaChange"} /\ last.call.index.t = "number"

\* C17: the Responsive plugin applies the override fields of every
\* breakpoint whose query currently matches, in declaration order: for each
\* field the value of the last declared matching breakpoint wins,
\* non-matching breakpoints contribute nothing, and fields that no matching
\* breakpoint overrides keep the base source's value.
C17_LastMatchingBreakpointWins ==
    ResolvesCandidate =>
        /\ ~last.threw
        /\ current_source # Null
        /\ current_source[1].src = ResolvedField(Candidate, "src")
        /\ Has(EvSet) =>
            poster = (IF ResolvedField(Candidate, "poster") = Undefined THEN Null
                      ELSE Some(ResolvedField(Candidate, "poster")))

\* Both breakpoints match: src is that of the second, poster that of the
\* first, which alone overrides it
C17_Witness ==
    /\ last.call.op = "selectSource"
    /\ last.call.index = Num(0)
    /\ ResolvesCandidate
    /\ media = {"q1", "q2"}
    /\ Has(EvSet)
    /\ current_source[1].src = "B"
    /\ poster = Some("P")

\* Only the second breakpoint matches: the poster is the base source's
C17_WitnessOneMatches ==
    /\ last.call.op = "selectSource"
    /\ last.call.index = Num(0)
    /\ ResolvesCandidate
    /\ media = {"q2"}
    /\ Has(EvSet)
    /\ current_source[1].src = "B"
    /\ poster = Null

----------------------------------------------------------------------------
(* C18 *)

\* C18: with responsive.rememberState enabled, every committed source change
\* restores what was captured when source.update was dispatched, before the
\* core paused the video: after source.set the playback position is the one
\* before the update, and play was requested if and only if the video was
\* not paused before the update.
C18_RememberedStateRestored ==
    (config.rememberState /\ last.call.op \in {"setSource", "selectSource", "mediaChange"}
        /\ Has(EvSet)) =>
        /\ video.currentTime = last.pre.currentTime
        /\ Has("play") <=> ~last.pre.paused
        /\ CountOf("play") <= 1
        /\ video.paused = last.pre.paused

\* A breakpoint change while the video plays at a position other than the
\* start
C18_Witness ==
    /\ last.call.op = "mediaChange"
    /\ Has(EvSet)
    /\ last.pre.currentTime = 7
    /\ ~last.pre.paused
    /\ video.currentTime = 7
    /\ Has("play")
    /\ ~video.paused

----------------------------------------------------------------------------
(* C19 *)

\* C19: a breakpoint change handled by the Responsive plugin never clears
\* the current source: when a source is active before the signal, a source is
\* active after it and source.unset was not dispatched, whether the source
\* was selected by selectSource or set directly by setSource.
C19_BreakpointChangeKeepsSource ==
    (last.call.op = "mediaChange" /\ last.pre.source # Null) =>
        /\ current_source # Null
        /\ ~Has(EvUnset)

\* The same for sources that were selected by index only
C19_SelectedSourceKept ==
    (last.call.op = "mediaChange" /\ last.pre.source # Null /\ last.pre.index # Null) =>
        /\ current_source # Null
        /\ ~Has(EvUnset)

----------------------------------------------------------------------------
(* C20 *)

\* The first call of the Sound plugin is unmute(), on a video that is muted
\* at volume 0 with no remembered volume, and mutedmax is below volumemin
FirstUnmute ==
    /\ last.call.op = "unmute"
    /\ last.chain = << "unmute" >>
    /\ last.pre.muted
    /\ last.pre.volume = 0
    /\ last.pre.last_volume = 0
    /\ last.pre.first_unmute
    /\ config.sound.mutedmax < config.sound.volumemin

\* C20: when mutedmax is below volumemin (as with mutedmax = 5, volumemin =
\* 10, firstunmute = 65), the first unmute() of a video that starts muted at
\* volume 0 with no remembered volume sets the volume to firstunmute.
C20_FirstUnmuteSetsFirstUnmute ==
    FirstUnmute =>
        /\ video.volume = config.sound.firstunmute
        /\ ~sound.first_unmute

\* What the first unmute() does instead: the volume is volumemin and the
\* first unmute is still to come
C20_FirstUnmuteSetsVolumeMin ==
    FirstUnmute =>
        /\ video.volume = config.sound.volumemin
        /\ ~video.muted
        /\ sound.first_unmute

----------------------------------------------------------------------------
(* C21 *)

\* C21: after a volume-change signal has been handled, the muted flag of the
\* video and the muted state are both set if and only if the volume (0-100)
\* is at or below mutedmax, whatever the muted flag was before the signal.
C21_VolumeChangeReconcilesMuted ==
    last.call.op = "volumechange" =>
        /\ video.muted <=> (video.volume <= config.sound.mutedmax)
        /\ ("muted" \in states) <=> (video.volume <= config.sound.mutedmax)

\* The volume was raised while the video was muted: the signal clears the
\* muted flag
C21_Witness ==
    /\ last.call.op = "volumechange"
    /\ last.pre.muted
    /\ video.volume > config.sound.mutedmax
    /\ ~video.muted
    /\ "muted" \notin states

----------------------------------------------------------------------------
(* C22 *)

\* The volume that unmute() sets when it is not the first unmute
RestoredVolume ==
    IF sound.last_volume <= config.sound.mutedmax THEN config.sound.volumemin
    ELSE sound.last_volume

\* One step of the Sound plugin, as to the first-unmute flag
FirstUnmuteStep ==
    /\ sound'.first_unmute => sound.first_unmute
    /\ (sound.first_unmute /\ ~sound'.first_unmute) =>
        /\ last'.call.op = "unmute"
        /\ video'.volume = config.sound.firstunmute
    /\ (last'.call.op = "unmute" /\ sound.first_unmute
            /\ video'.volume = config.sound.firstunmute) => ~sound'.first_unmute
    /\ (last'.call.op = "unmute" /\ ~sound.first_unmute) => video'.volume = RestoredVolume

\* C22: the first-unmute flag only ever goes from set to cleared: after
\* initialization it is set only when the video is muted, it is cleared by
\* the unmute() that applies the firstunmute level and never set again, and
\* an unmute() that finds it cleared does not apply the firstunmute level; so
\* the level is applied at most once.
C22_FirstUnmuteOnce ==
    /\ sound.first_unmute <=> video.muted
    /\ [][FirstUnmuteStep]_vars

\* The unmute() that applied the firstunmute level and cleared the flag
C22_Witness ==
    /\ last.call.op = "unmute"
    /\ last.pre.first_unmute
    /\ ~sound.first_unmute
    /\ video.volume = config.sound.firstunmute
    /\ Len(last.chain) > 1

----------------------------------------------------------------------------
(* C23 *)

\* The indexes of the entries whose property is strictly equal to the value
MatchingIndexes ==
    { i \in 0 .. Len(config.sources) - 1 : config.sources[i + 1][last.prop] = last.value }

\* C23: findSourceIndexProp(prop, value) returns the smallest index i such
\* that sources[i][prop] is strictly equal to value, or that entry itself
\* when the return-object flag is set; it returns null when no entry matches,
\* and throws when config sources is not a list.
C23_FindsFirstMatch ==
    last.call.op = "findSourceIndexProp" =>
        IF ~last.isarray THEN last.threw
        ELSE /\ ~last.threw
             /\ IF MatchingIndexes = {} THEN last.result.kind = "null"
                ELSE /\ last.result.kind = (IF last.ret THEN "object" ELSE "index")
                     /\ last.result.index \in MatchingIndexes
                     /\ \A j \in MatchingIndexes : last.result.index <= j
                     /\ last.ret => last.result.object = config.sources[last.result.index + 1]

\* findSourceIndexProp( 'src', 'X' ) on [ {src:'A'}, {src:'X'}, {src:'X'} ]
C23_Witness ==
    /\ last.call.op = "findSourceIndexProp"
    /\ Len(config.sources) = 3
    /\ config.sources[1].src = "A"
    /\ config.sources[2].src = "X"
    /\ config.sources[3].src = "X"
    /\ last.prop = "src" /\ last.value = "X" /\ ~last.ret /\ last.isarray
    /\ last.result = FoundIndex(1)

----------------------------------------------------------------------------
(* C24 *)

\* The argument of the last setPoster
PosterArg == last.call.source.poster

\* setPoster failed before changing the poster or dispatching an event
PosterRejected ==
    /\ last.threw
    /\ poster = last.pre.poster
    /\ Dispatched = << >>
    /\ last.posters = << >>

\* setPoster applied the string and dispatched poster.set once, carrying it
PosterSetOnce ==
    /\ ~last.threw
    /\ poster = Some(PosterArg)
    /\ EventNames(Dispatched) = << EvPosterSet >>
    /\ last.posters = << Some(PosterArg) >>

\* setPoster removed the poster and dispatched poster.unset once
PosterUnsetOnce ==
    /\ ~last.threw
    /\ poster = Null
    /\ EventNames(Dispatched) = << EvPosterUnset >>
    /\ Len(last.posters) = 1

\* C24: setPoster(p) applies a non-empty string and dispatches poster.set;
\* for null or the empty string it removes the poster and dispatches
\* poster.unset, the empty string behaving exactly as null (the event carries
\* null); for any other value it fails before changing the poster or
\* dispatching an event.  One poster event is dispatched per successful call.
C24_SetPosterEmptyAsNull ==
    last.call.op = "setPoster" =>
        IF PosterArg = NotAString THEN PosterRejected
        ELSE IF PosterArg \in {Undefined, ""}
        THEN PosterUnsetOnce /\ last.posters = << Null >>
        ELSE PosterSetOnce

\* The same without the detail of the event for the empty string: the
\* attribute and the name of the event are as for null
C24_SetPosterAttributeAndEvent ==
    last.call.op = "setPoster" =>
        IF PosterArg = NotAString THEN PosterRejected
        ELSE IF PosterArg \in {Undefined, ""} THEN PosterUnsetOnce
        ELSE PosterSetOnce

\* setPoster( '' ) dispatches poster.unset with the empty string as poster
C24_EmptyStringInDetail ==
    (last.call.op = "setPoster" /\ PosterArg = "") => last.posters = << Some("") >>


----------------------------------------------------------------------------
(* C25 *)

\* The states that set( name ) may change: the state itself and its unsets list
MayChange(name) == {name} \cup Unsets(name)

\* The states that a cascade over the cleared states would clear in addition
SecondLevel(was, name) == UNION {Unsets(u) : u \in Unsets(name) \cap was} \ MayChange(name)

\* C25: set(s) changes only s and the states of the unsets list of s: every
\* other state keeps its value, in particular the states named in the unsets
\* lists of the states that were cleared; set(ended) leaves paused, loading,
\* playable and error as they were.
C25_OneLevelCascade ==
    last.call.op = "states.set" =>
        /\ \A x \in Registered \ MayChange(last.name) : (x \in states) <=> (x \in last.was)
        /\ \A x \in SecondLevel(last.was, last.name) : (x \in states) <=> (x \in last.was)
        /\ last.name = "ended" =>
            states \cap {"paused", "loading", "playable", "error"}
                = last.was \cap {"paused", "loading", "playable", "error"}

\* playable is set while loading and paused are set: loading is cleared, and
\* paused, which is in the unsets list of loading, stays set
C25_Witness ==
    /\ last.call.op = "states.set"
    /\ last.name = "playable"
    /\ {"loading", "paused"} \subseteq last.was
    /\ "paused" \in SecondLevel(last.was, last.name)
    /\ "loading" \notin states
    /\ "paused" \in states

----------------------------------------------------------------------------
(* C26 *)

LoadStates == {"loading", "playable", "error"}
AtMostOneLoadState(S) == Cardinality(S \cap LoadStates) <= 1

\* C26: at most one of loading, playable and error is set, between the
\* operations and signals and at every point an operation or a signal handler
\* recorded (each event dispatch, each load, each states.set of a handler).
C26_OneLoadState ==
    /\ AtMostOneLoadState(states)
    /\ \A i \in 1 .. Len(last.log) : AtMostOneLoadState(last.log[i].states)

\* The load of a playable source fails: error replaces playable
C26_Witness ==
    /\ last.call.op = "error"
    /\ "playable" \in last.pre.states
    /\ states \cap LoadStates = {"error"}

----------------------------------------------------------------------------
(* C27 *)

\* sourceNone is set exactly when there is no current source
NoneIffNoSource(S, cur) == ("sourceNone" \in S) <=> (cur = Null)

\* The points of an operation at which a listener or the caller gets control
Observable(e) == e.ev \in Events \cup {"throw"}

\* C27: between operations, and at every event dispatch and every exception
\* of an operation, sourceNone is set if and only if the current source is
\* null.
C27_SourceNoneIffNoSource ==
    /\ NoneIffNoSource(states, current_source)
    /\ \A i \in 1 .. Len(last.log) :
        Observable(last.log[i]) => NoneIffNoSource(last.log[i].states, last.log[i].cur)

\* A source was current and unsetSource removed it: source.unset is
\* dispatched with sourceNone set and no current source
C27_Witness ==
    /\ last.call.op = "unsetSource"
    /\ last.pre.source # Null
    /\ "sourceNone" \notin last.pre.states
    /\ Has(EvUnset)
    /\ At(EvUnset).cur = Null
    /\ "sourceNone" \in At(EvUnset).states
    /\ current_source = Null
    /\ "sourceNone" \in states

----------------------------------------------------------------------------
(* C28 *)

\* The lifecycle states of a component whose source was just unset
UnsetStatesHold(S) ==
    /\ {"loading", "sourceNone"} \subseteq S
    /\ S \cap {"paused", "playing", "playable", "error"} = {}

\* unsetSource was called, directly or by selectSource( null )
UnsetSourceCalled ==
    \/ last.call.op = "unsetSource"
    \/ last.call.op = "selectSource" /\ last.call.index.t = "null"

\* C28: an unsetSource that no listener vetoed has loading and sourceNone
\* set, and paused, playing, playable and error unset, when source.unset is
\* dispatched and when the call returns.
C28_UnsetSourceEndsLoading ==
    (UnsetSourceCalled /\ ~Vetoed) =>
        /\ ~last.threw
        /\ CountOf(EvUnset) = 1
        /\ UnsetStatesHold(At(EvUnset).states)
        /\ UnsetStatesHold(states)

\* A playing source is unset
C28_Witness ==
    /\ last.call.op = "unsetSource"
    /\ ~Vetoed
    /\ last.pre.source # Null
    /\ "playing" \in last.pre.states
    /\ "loading" \notin last.pre.states
    /\ Has(EvUnset)
    /\ UnsetStatesHold(states)

----------------------------------------------------------------------------
(* C29 *)

\* C29: the states playing and ended are never both set.
C29_PlayingExcludesEnded == ~({"playing", "ended"} \subseteq states)

----------------------------------------------------------------------------
(* C30 *)

\* The call l asks for the src of the source that was current before it:
\* setSource with an object of that src, or selectSource, without plugins,
\* of a list entry of that src
SameSrcRequested(l) ==
    /\ l.pre.source # Null
    /\ \/ /\ l.call.op = "setSource"
          /\ l.call.source.pojo
          /\ Some(l.call.source.src) = getCurrentSource(l.pre)
       \/ /\ l.call.op = "selectSource"
          /\ l.call.hook = NoHook
          /\ l.call.isarray
          /\ l.call.index.t = "number"
          /\ IsIndex(l.call.index.n)
          /\ Some(SourceAt(l.call.index.n).src) = getCurrentSource(l.pre)

\* The call l went through unsetSource
UnsetRequested(l) ==
    \/ l.call.op = "unsetSource"
    \/ l.call.op \in {"selectSource", "selectSourceRetry"} /\ l.call.index.t = "null"

\* The call l set a source whose src is not that of the source current before
DifferentSrcRequested(l) ==
    \/ /\ l.call.op \in {"setSource", "setSourceTwice"}
       /\ Some(l.call.source.src) # getCurrentSource(l.pre)
    \/ /\ l.call.op \in {"selectSource", "selectSourceRetry"}
       /\ \E i \in 1 .. Len(l.log) :
            /\ l.log[i].ev = "load"
            /\ l.log[i].cur # getCurrentSource(l.pre)

\* Setting the failed source again changes nothing
RetryIsNoOp ==
    ("error" \in last.pre.states /\ SameSrcRequested(last)) =>
        /\ ~last.threw
        /\ "error" \in states
        /\ LifecycleStates = last.pre.states
        /\ ~Has("load")
        /\ ~Has(EvSet)
        /\ children = last.pre.children
        /\ current_source = last.pre.source

\* The error state ends only with unsetSource or a source of another src
ErrorLeftStep ==
    ("error" \in states /\ "error" \notin states') =>
        /\ "loading" \in states'
        /\ UnsetRequested(last') \/ DifferentSrcRequested(last')

\* C30: after a load failure, setSource or selectSource with the src of the
\* current source is a no-op: the error state stays, nothing is loaded and
\* source.set is not dispatched; the error state is left only by unsetSource
\* or by setting a source of a different src.
C30_ErrorStaysUntilOtherSource == []RetryIsNoOp /\ [][ErrorLeftStep]_vars

\* The failed source is set again
C30_Witness ==
    /\ "error" \in last.pre.states
    /\ SameSrcRequested(last)
    /\ last.call.op = "setSource"
    /\ ~last.L.veto
    /\ Has(EvUpdate)
    /\ "error" \in states

----------------------------------------------------------------------------
(* C31 *)

\* The breakpoints of a responsive map that match now and carry a src
SrcOverrides(map) ==
    { k \in 1 .. Len(map) : map[k].query \in media /\ map[k].fields.src # Absent }

Greatest(K) == CHOOSE k \in K : \A j \in K : j <= k

\* The src of a list entry with all matching overrides applied, the later
\* declared winning, and then rewritten by the source.update listeners
ResolvedSrc(s, L) ==
    IF L.rewrite.src # Absent THEN L.rewrite.src
    ELSE IF SrcOverrides(s.responsive) = {} THEN s.src
    ELSE s.responsive[Greatest(SrcOverrides(s.responsive))].fields.src

\* A media query changed while a list entry was selected, and the entry
\* resolves to the address of the current source
ResolvesToCurrent ==
    /\ last.call.op = "mediaChange"
    /\ last.call.index.t = "number"
    /\ IsIndex(last.call.index.n)
    /\ Some(ResolvedSrc(SourceAt(last.call.index.n), last.L)) = getCurrentSource(last.pre)

\* C31: a breakpoint change whose resolved src, after the source.update
\* listeners rewrote it, is the address of the current source dispatches
\* source.update only, loads nothing and leaves the index, the source and the
\* lifecycle states unchanged.
C31_BreakpointChangeSameSrc ==
    ResolvesToCurrent =>
        /\ ~last.threw
        /\ EventNames(Dispatched) = << EvUpdate >>
        /\ ~Has("load")
        /\ SelectionUnchanged
        /\ children = last.pre.children
        /\ LifecycleStates = last.pre.states

\* q1 stops matching while q2, declared later, still decides the src
C31_Witness ==
    /\ ResolvesToCurrent
    /\ ~last.L.veto
    /\ last.L.rewrite = NoRewrite
    /\ media = {"q2"}
    /\ getCurrentSource(Component) = Some("B")

\* The listener's address is the current one, whatever the breakpoints say
C31_WitnessRewritten ==
    /\ ResolvesToCurrent
    /\ last.L.rewrite.src = "X"
    /\ getCurrentSource(Component) = Some("X")

----------------------------------------------------------------------------
(* C32 *)

\* setSource was called with a plain object whose src is empty or missing
SetWithoutSrc ==
    /\ last.call.op = "setSource"
    /\ last.call.source.pojo
    /\ last.call.source.src \in {"", Undefined}

\* A source.update listener supplied the src
SrcSupplied == last.L.rewrite.src \notin {Absent, "", Undefined}

\* C32: src is checked after source.update was dispatched and not vetoed:
\* a source passed without src has source.update dispatched first; when the
\* event is vetoed the call returns without error and changes nothing; when
\* not, it throws exactly if no listener supplied a src, and otherwise goes on
\* with the supplied src.
C32_SrcCheckedAfterUpdate ==
    SetWithoutSrc =>
        /\ Dispatched # << >>
        /\ Dispatched[1].ev = EvUpdate
        /\ Vetoed => (~last.threw /\ EventNames(Dispatched) = << EvUpdate >>
                        /\ SelectionUnchanged /\ LifecycleStates = last.pre.states)
        /\ ~Vetoed => (last.threw <=> ~SrcSupplied)
        /\ (~Vetoed /\ SrcSupplied) => getCurrentSource(Component) = Some(last.L.rewrite.src)

\* A listener supplies the src of a source passed with an empty src, and the
\* source is set
C32_Witness ==
    /\ SetWithoutSrc
    /\ last.call.source.src = ""
    /\ SrcSupplied
    /\ ~last.threw
    /\ Has(EvSet)
    /\ getCurrentSource(Component) = Some("X")

\* A source without src whose source.update is vetoed
C32_WitnessVetoed ==
    /\ SetWithoutSrc
    /\ Vetoed
    /\ ~last.threw

----------------------------------------------------------------------------
(* C33 *)

\* The index, the source, the attached source elements and the lifecycle
\* states are those before the call
AsBeforeTheCall ==
    /\ current_index = last.pre.index
    /\ current_source = last.pre.source
    /\ children = last.pre.children
    /\ LifecycleStates = last.pre.states

\* C33: whenever a direct setSource call throws, the index, the current
\* source, the attached source element and all lifecycle states are the same
\* as before the call.
C33_FailedSetSourceChangesNothing ==
    (last.call.op = "setSource" /\ last.threw) => AsBeforeTheCall

\* The part that holds: a setSource that throws for its argument not being a
\* plain object or for an empty src changes nothing.
C33_ArgumentErrorsChangeNothing ==
    (last.call.op = "setSource" /\ last.threw /\ last.call.source.poster # NotAString)
        => AsBeforeTheCall

\* A setSource that throws in setPoster has entered loading and removed the
\* source element of the source that stays current.
C33_PosterErrorAfterLoading ==
    (last.call.op = "setSource" /\ last.threw /\ last.call.source.poster = NotAString) =>
        /\ "loading" \in states
        /\ children = << >>
        /\ current_index = last.pre.index
        /\ current_source = last.pre.source
        /\ ~Has(EvSet)

----------------------------------------------------------------------------
(* C34 *)

\* C34: the load failure of a source element that was replaced or removed
\* does not put the widget into error.
C34_StaleFailureIgnored ==
    last.call.op = "staleError" => ("error" \in states <=> "error" \in last.pre.states)

\* What the handler does for a removed element: error is set and loading
\* cleared, whether another source is loading or none is current
C34_StaleFailureSetsError ==
    last.call.op = "staleError" =>
        /\ "error" \in states
        /\ "loading" \notin states
        /\ current_source = last.pre.source

\* After the failure of a replaced element the new source never becomes
\* playable: can play applies only while loading
C34_NewSourceStuck ==
    (last.call.op = "canplay" /\ "error" \in last.pre.states) => "playable" \notin states

----------------------------------------------------------------------------
(* C35 *)

\* unmute() was the latest call of the Sound plugin, and the volumechange
\* events it caused have been handled
UnmuteHandled ==
    /\ last.chain # << >>
    /\ last.chain[Len(last.chain)] = "unmute"
    /\ ~video.changed

\* C35: for every valid configuration and every sequence of calls before,
\* once unmute() and the volumechange it causes have been handled,
\* video.muted is false and the muted state is unset.
C35_UnmuteClearsMuted ==
    UnmuteHandled => (~video.muted /\ "muted" \notin states)

\* The part that holds: it is so when mutedmax is below volumemin.
C35_UnmuteClearsMutedAboveMax ==
    (UnmuteHandled /\ config.sound.mutedmax < config.sound.volumemin)
        => (~video.muted /\ "muted" \notin states)

\* With mutedmax = volumemin an unmute() after the first one sets the volume
\* to volumemin, and the volumechange handler mutes the video again.
C35_MutedAgainAtVolumeMin ==
    (UnmuteHandled /\ video.muted) =>
        /\ config.sound.mutedmax = config.sound.volumemin
        /\ video.volume = config.sound.volumemin
        /\ "muted" \in states

----------------------------------------------------------------------------
(* C36 *)

\* The calls so far are n times mute(), saving the volume, and one unmute(),
\* on a video whose volume was above mutedmax
MutesThenUnmute(n) ==
    /\ last.call.op = "unmute"
    /\ last.chain = [i \in 1 .. n + 1 |-> IF i <= n THEN "mute" ELSE "unmute"]
    /\ last.start > config.sound.mutedmax

\* C36: one or more consecutive mute() calls followed by unmute() restore
\* the volume v that the video had, for mutedmax < v <= 100.
C36_MuteUnmuteRoundTrip ==
    \A n \in 1 .. 2 : MutesThenUnmute(n) => video.volume = last.start

\* The part that holds: one mute() followed by unmute() restores the volume.
C36_SingleMuteRoundTrip ==
    MutesThenUnmute(1) => (video.volume = last.start /\ ~video.muted)

\* A second mute() saves the volume 0 that the first one set, so the
\* unmute() that follows sets volumemin, or firstunmute when it is the first
\* unmute of a video that was muted initially.
C36_SecondMuteForgetsVolume ==
    MutesThenUnmute(2) =>
        /\ last.pre.last_volume = 0
        /\ video.volume \in {config.sound.volumemin, config.sound.firstunmute}
        /\ video.volume # last.start

----------------------------------------------------------------------------
(* C37 *)

\* A source that carries a responsive map is set or selected while the
\* Responsive plugin is loaded without a media query handler
MapWithoutMedia ==
    /\ "responsive" \in config.plugins
    /\ ~config.mediaHandler
    /\ \/ /\ last.call.op = "setSource"
          /\ last.call.source.responsive # NoBreakpoints
       \/ /\ last.call.op = "selectSource"
          /\ last.call.index.t = "number"
          /\ IsIndex(last.call.index.n)
          /\ SourceAt(last.call.index.n).responsive # NoBreakpoints

\* C37: with responsive.media null the plugin is inert: setting or
\* selecting a source that carries a responsive map completes normally,
\* dispatches source.set and applies no overrides.
C37_InertWithoutMedia ==
    (MapWithoutMedia /\ ~last.L.veto) =>
        /\ ~last.threw
        /\ Has(EvSet)
        /\ getCurrentSource(Component) = Some("S")

\* What happens instead: the plugin's source.update listener fails, the call
\* ends with that error after source.update, and no source is set or loaded.
C37_UpdateListenerFails ==
    MapWithoutMedia =>
        /\ last.threw
        /\ EventNames(Dispatched) = << EvUpdate >>
        /\ ~Has("load")
        /\ current_source = last.pre.source
        /\ LifecycleStates = last.pre.states

\* The part that holds: sources without a responsive map are set as without
\* the plugin.
C37_PlainSourceIsSet ==
    (last.call.op = "setSource" /\ last.call.source.responsive = NoBreakpoints
        /\ ~last.L.veto /\ Some(last.call.source.src) # getCurrentSource(last.pre))
        => (~last.threw /\ Has(EvSet)
            /\ getCurrentSource(Component) = Some(last.call.source.src))

----------------------------------------------------------------------------
\* C38

\* A request issued by a click or a double click is pending
ClickPending ==
    \E i \in 1 .. Len(fullscreen.requests) : fullscreen.requests[i] \in {"click", "dblclick"}

\* No request issued by a call of requestFullscreen() was granted last
NoCallGranted == fullscreen.granted # "call"

\* C38: once disableFullscreen() has returned and until enableFullscreen() or
\* requestFullscreen() is called, the fullscreen state is unset, whatever
\* request was pending at the disable.
C38_DisabledStaysUnset ==
    (fullscreen.disabled /\ NoCallGranted) => "fullscreen" \notin states

\* C38: when disableFullscreen() returns the fullscreen state is unset.
C38_DisableLeavesFullscreen ==
    last.call.op = "disableFullscreen" => "fullscreen" \notin states

\* C38: after disableFullscreen() has returned, the fullscreen state is set
\* again only by the then-callback of a request that was pending at the disable.
C38_SetOnlyByPendingRequest ==
    [][ (fullscreen.disabled /\ fullscreen'.disabled
            /\ "fullscreen" \notin states /\ "fullscreen" \in states')
        => /\ last'.call.op = "resolved"
           /\ fullscreen.requests # << >>
           /\ ~fullscreen'.enabled ]_vars


----------------------------------------------------------------------------
\* C39

\* The last operation was an input or change event of the range input
RangeEventHandled == last.call.op \in {"input", "change"}

\* The range event that was handled set the video's position
Seeked == last.log # << >> /\ last.log[1].ev = "seek"

\* C39: after interactive( state ) the config value progress.interactive is
\* state, and the range input's events seek exactly if state is true.
C39_InteractiveWhenTrue ==
    progress.called # Null
        => /\ progress.interactive = progress.called
           /\ RangeEventHandled => (Seeked <=> progress.called[1])

\* C39: after interactive( state ) the config value is the negation of state,
\* and the range input's events seek exactly if state is false.
C39_InteractiveWhenFalse ==
    progress.called # Null
        => /\ progress.interactive = Some(~progress.called[1])
           /\ RangeEventHandled => (Seeked <=> ~progress.called[1])

\* C39: after interactive( state ) the range input is read-only exactly if
\* state is false.
C39_ReadonlyWhenFalse ==
    progress.called # Null
        => /\ progress.readonly = ~progress.called[1]
           /\ progress.attribute = ~progress.called[1]

\* C39: a range event after interactive( true ) that did not seek, and one
\* after interactive( false ) that did.
C39_SeekRefused ==
    RangeEventHandled /\ progress.called = Some(TRUE) /\ ~Seeked
C39_SeekOfReadonly ==
    RangeEventHandled /\ progress.called = Some(FALSE) /\ Seeked /\ progress.readonly

----------------------------------------------------------------------------
\* C40

ControlsShown == "controlsShow" \in states

\* While the controls are shown, the one pending timer is the one of the
\* last mousemove, due controls.timeout after it
TimerOfLastMove ==
    ControlsShown =>
        /\ controls.moved # Null
        /\ controls.timers = {controls.moved[1] + ControlsTimeout}

\* A play or playing signal hides the controls at once
HiddenByPlay == last.call.op \in {"play", "playing"} => ~ControlsShown

\* C40: controls that a mousemove showed are hidden again, by the hide timer
\* controls.timeout after the last mousemove or earlier by a play or playing
\* signal; a newer mousemove cancels the older timer.
C40_ControlsHiddenAgain ==
    /\ ControlsShown ~> ~ControlsShown
    /\ [](TimerOfLastMove /\ HiddenByPlay)

\* C40: the timer of a second mousemove, which cancelled the first one's,
\* has hidden the controls controls.timeout after that mousemove.
C40_Witness ==
    /\ last.call.op = "timeout"
    /\ ~ControlsShown
    /\ controls.cancelled
    /\ controls.now = controls.moved[1] + ControlsTimeout

\* C40: a play signal has hidden the controls before their timer was due.
C40_WitnessPlay ==
    /\ last.call.op = "play"
    /\ ~ControlsShown
    /\ controls.timers # {}
    /\ \A t \in controls.timers : controls.now < t

====
